---- MODULE Spec2Model ----
(***************************************************************************)
(* AudioFocus-Manager: the arbitration engine (worker.py) together with    *)
(* the presentation shell's queue handlers (app.py), the configuration     *)
(* manager (config.py) and the whitelist dialog's encoding of modes        *)
(* (settings_window.py).                                                   *)
(*                                                                         *)
(* Two threads: the UI thread (tkinter callbacks) and the worker thread,   *)
(* which runs one asyncio event loop with two kinds of task: the periodic  *)
(* check loop and the enrichment task that every sessions_changed event    *)
(* schedules.  Tasks of the loop interleave only where the periodic task   *)
(* is suspended (awaiting get_media_sessions, or asleep); the UI thread    *)
(* interleaves everywhere and talks to the worker through two queues.      *)
(***************************************************************************)
EXTENDS Integers, Sequences, FiniteSets, TLC

(***************************************************************************)
(* Bounds of the model                                                     *)
(***************************************************************************)
\* things the outside world (the user, the players) does in one behaviour
MaxEvents == 2
\* seconds after which the age of a delay timer is no longer counted
MaxAge == 2
\* messages the UI may have pending for the worker
MaxWorkerQueue == 2
\* messages the worker may have pending for the UI
MaxUiQueue == 3
\* periodic cycles that are counted
MaxCycles == 2
\* exceptions raised inside the periodic cycles of one run
MaxFailures == 2
\* sessions the system hands to one call of the controller or the monitor
MaxSessions == 2

(***************************************************************************)
(* Python values                                                           *)
(***************************************************************************)
\* pid_map.get(...) of a name that no audio process carries: Python None
NoPid == 0

\* target_app_info = None
NoneTarget == [source |-> "None", pid |-> NoPid]

\* last_known_state = None (distinct from the empty snapshot {})
NoneState == [s \in {"None"} |-> [status |-> "None", pid |-> NoPid]]

\* dict.get(key, default)
Get(d, k, default) == IF k \in DOMAIN d THEN d[k] ELSE default

\* the empty dict / empty list
EmptyDict == <<>>

(***************************************************************************)
(* The machine the program runs on: media sessions and audio processes     *)
(***************************************************************************)
\* source ids (SourceAppUserModelId) of the media sessions that may exist
Sources == {"Spotify.exe", "Chrome"}

\* playback_status 4 and 5 as get_media_sessions names them
Statuses == {"Playing", "Paused"}

\* pids of the processes that may hold an audio session
Pids == {1, 2}

\* what one sample can find of a process: no audio session, a silent one
\* (peak_value <= 0.01) or a playing one.  The player's process is sampled
\* with or without an audio session, the system's audio process always has one
SampleStates(pid) ==
    CASE pid = 1 -> {"absent", "playing"}
      [] pid = 2 -> {"silent", "playing"}

\* psutil.Process(pid).name()
ProcessName(pid) ==
    CASE pid = 1 -> "Spotify.exe"
      [] pid = 2 -> "audiodg.exe"

\* MediaController.get_app_name_from_source, then .lower()
\*   "Spotify.exe" has no '!': split('.')[0] = "Spotify" -> "spotify"
\*   "Chrome"      has no '!': split('.')[0] = "Chrome"  -> "chrome"
DisplayNameLower(source) ==
    CASE source = "Spotify.exe" -> "spotify"
      [] source = "Chrome" -> "chrome"

\* process_name.lower().replace('.exe', '')
NormalizedProcessName(process_name) ==
    CASE process_name = "Spotify.exe" -> "spotify"
      [] process_name = "audiodg.exe" -> "audiodg"

(***************************************************************************)
(* Whitelist modes.  The dialog shows the Chinese labels and stores the    *)
(* English values; the detector compares against the Chinese labels.  The  *)
(* labels are written here in pinyin: zhengchang (normal), hulue (ignore), *)
(* yanshi (delay).                                                         *)
(***************************************************************************)
\* WhitelistEntry.MODE_MAP
MODE_MAP ==
    [label \in {"zhengchang", "hulue", "yanshi"} |->
        CASE label = "zhengchang" -> "normal"
          [] label = "hulue" -> "ignore"
          [] label = "yanshi" -> "delay"]

\* the literal of `if mode == ...` at worker.py:215
DetectorIgnoreMode == "hulue"

\* the literal of `if mode == ...` at worker.py:219
DetectorDelayMode == "yanshi"

\* WhitelistEntry._on_update: the settings one entry of the dialog reports
OnUpdate(selected_mode_label, delay_var) ==
    [mode |-> Get(MODE_MAP, selected_mode_label, "normal"),
     delay_seconds |-> delay_var]

\* SettingsWindow._on_update_whitelist
OnUpdateWhitelist(whitelist, process_name, new_settings) ==
    IF new_settings.mode = "normal"
    THEN [a \in DOMAIN whitelist \ {process_name} |-> whitelist[a]]
    ELSE [a \in DOMAIN whitelist \cup {process_name} |->
            IF a = process_name THEN new_settings ELSE whitelist[a]]

(***************************************************************************)
(* config.py                                                               *)
(***************************************************************************)
\* ConfigManager.defaults (the logging section is not read by the engine)
defaults ==
    [general |-> [always_on_top |-> FALSE, debug_mode |-> FALSE],
     audio |-> [whitelist |->
        [a \in {"SystemSoundsService.exe", "audiodg.exe"} |-> [mode |-> "ignore"]]]]

\* ConfigManager._validate_config: only always_on_top and debug_mode are
\* taken from the file's general section; whitelist entries that carry a
\* mode are kept, delay_seconds defaulting to 2
ValidateConfig(user_config) ==
    LET general == Get(user_config, "general", EmptyDict)
        audio_conf == Get(user_config, "audio", EmptyDict)
        wl == Get(audio_conf, "whitelist", EmptyDict)
        validated_whitelist ==
            [app \in {a \in DOMAIN wl : "mode" \in DOMAIN wl[a]} |->
                [mode |-> wl[app].mode,
                 delay_seconds |-> Get(wl[app], "delay_seconds", 2)]]
    IN [general |->
            [always_on_top |-> Get(general, "always_on_top", defaults.general.always_on_top),
             debug_mode |-> Get(general, "debug_mode", defaults.general.debug_mode)],
        audio |-> [whitelist |->
            IF "whitelist" \in DOMAIN audio_conf
            THEN validated_whitelist
            ELSE defaults.audio.whitelist]]

\* the YAML file is absent
NoFile == [missing |-> TRUE]

\* ConfigManager._load_config
LoadConfig(file) ==
    IF file = NoFile THEN defaults ELSE ValidateConfig(file)

\* ConfigManager.get for a two-part key "section.key"
ConfigGet(cfg, section, key, default) ==
    IF section \in DOMAIN cfg /\ key \in DOMAIN cfg[section]
    THEN cfg[section][key]
    ELSE default

(***************************************************************************)
(* Inputs: the configuration file found at start-up                        *)
(***************************************************************************)
\* the value of the dialog's delay spinbox that the model tries
DelayChoice == 2

\* the whitelist the settings dialog writes when the user gives audiodg.exe
\* the mode shown as label
DialogWhitelist(label) ==
    OnUpdateWhitelist(EmptyDict, "audiodg.exe", OnUpdate(label, DelayChoice))

\* a whitelist whose mode is the label itself (a file edited by hand)
LabelWhitelist(label) ==
    [a \in {"audiodg.exe"} |-> [mode |-> label, delay_seconds |-> DelayChoice]]

\* no file; a file that enables general.ignore_manual_pause and keeps every
\* process in normal mode; a file the dialog wrote with audiodg.exe in delay
\* mode; the same with the mode as the detector spells it
ConfigFiles ==
    {NoFile,
     [general |-> [ignore_manual_pause |-> TRUE],
      audio |-> [whitelist |-> DialogWhitelist("zhengchang")]],
     [audio |-> [whitelist |-> DialogWhitelist("yanshi")]],
     [audio |-> [whitelist |-> LabelWhitelist(DetectorDelayMode)]]}

(***************************************************************************)
(* audio_monitor.py: one sample of the audio sessions                      *)
(***************************************************************************)
PidOrder == <<1, 2>>

\* AudioMonitor.get_audio_playing_apps: a record per audio session whose
\* process could be queried; is_playing is peak_value > 0.01
SampleOf(f) ==
    LET present == SelectSeq(PidOrder, LAMBDA p : f[p] # "absent")
    IN [i \in 1..Len(present) |->
            [pid |-> present[i],
             process_name |-> ProcessName(present[i]),
             is_playing |-> f[present[i]] = "playing"]]

Samples ==
    {SampleOf(f) : f \in {g \in [Pids -> {"absent", "silent", "playing"}] :
                              \A p \in Pids : g[p] \in SampleStates(p)}}

(***************************************************************************)
(* worker.py: interference detection                                       *)
(***************************************************************************)
\* worker.py:196  names of the processes playing in this sample
PlayingAppNames(audio_apps) ==
    {audio_apps[i].process_name : i \in {j \in DOMAIN audio_apps : audio_apps[j].is_playing}}

\* worker.py:197-200  drop the timers of processes that no longer play
CleanDelayTimers(timers, audio_apps) ==
    [n \in DOMAIN timers \cap PlayingAppNames(audio_apps) |-> timers[n]]

\* a detector that reads a process without an entry as ignored
ModeOfAbsentIgnored(whitelist, app_name) ==
    IF app_name \in DOMAIN whitelist /\ whitelist[app_name] # EmptyDict
    THEN whitelist[app_name].mode
    ELSE DetectorIgnoreMode

\* worker.py:212-213  the mode the detector reads for a process name
ModeOf(whitelist, app_name) ==
    IF app_name \in DOMAIN whitelist /\ whitelist[app_name] # EmptyDict
    THEN whitelist[app_name].mode
    ELSE "normal"

\* worker.py:203-235  the scan for an interfering process; it starts the
\* delay timers it needs on the way and stops at the first interfering one.
\* A timer is kept as its age, time.time() - delay_timers[app_name]: a timer
\* started in this cycle has age 0
RECURSIVE ScanForInterference(_, _, _, _, _)
ScanForInterference(audio_apps, i, target_pid, whitelist, timers) ==
    IF i > Len(audio_apps)
    THEN [is_interfering |-> FALSE, delay_timers |-> timers]
    ELSE
      LET app == audio_apps[i]
          app_name == app.process_name
          mode == ModeOf(whitelist, app_name)
          skip == ScanForInterference(audio_apps, i + 1, target_pid, whitelist, timers)
          found == [is_interfering |-> TRUE, delay_timers |-> timers]
      IN  IF ~app.is_playing \/ app.pid = target_pid THEN skip
          ELSE IF app_name = "" THEN skip
          ELSE IF mode = DetectorIgnoreMode THEN skip
          ELSE IF mode = DetectorDelayMode THEN
              LET delay_seconds == Get(whitelist[app_name], "delay_seconds", 2)
              IN  IF app_name \notin DOMAIN timers
                  THEN ScanForInterference(audio_apps, i + 1, target_pid, whitelist,
                                           (app_name :> 0) @@ timers)
                  ELSE IF timers[app_name] < delay_seconds THEN skip
                  ELSE found
          ELSE found

\* worker.py:241-242  is the target's source id in the latest snapshot
TargetInSnapshot(state, target_source) ==
    LET latest_sessions == IF state = NoneState THEN EmptyDict ELSE state
    IN target_source \in DOMAIN latest_sessions

\* a detector that pauses when the flag is set instead of when it is clear
ShouldPauseWhenFlagged(state, target_source, paused_by_app) ==
    /\ state[target_source].status = "Playing"
    /\ paused_by_app

\* worker.py:248  the condition under which the engine pauses the target
ShouldPause(state, target_source, paused_by_app) ==
    /\ state[target_source].status = "Playing"
    /\ ~paused_by_app

\* a detector that resumes whether or not it holds the target paused
ShouldResumeAlways(paused_by_app) == TRUE

\* worker.py:253  the condition under which the engine considers resuming
ShouldResume(paused_by_app) == paused_by_app

\* a detector that withholds the resume without reading the option
KeepPausedWithoutOption(cfg, manually_paused) == manually_paused

\* worker.py:254-257  resume is withheld after a manual pause
KeepPaused(cfg, manually_paused) ==
    ConfigGet(cfg, "general", "ignore_manual_pause", FALSE) /\ manually_paused

\* a detection step that looks at the interference before it looks for the
\* target's session
DecideInterferenceFirst(is_interfering, state, target_source, paused_by_app, manually_paused, cfg) ==
    IF is_interfering
    THEN IF TargetInSnapshot(state, target_source)
            /\ ShouldPause(state, target_source, paused_by_app)
         THEN [commands |-> <<[source |-> target_source, command |-> "pause"]>>,
               messages |-> <<[type |-> "set_paused_flag", data |-> TRUE]>>]
         ELSE [commands |-> <<>>, messages |-> <<>>]
    ELSE IF ~TargetInSnapshot(state, target_source)
    THEN [commands |-> <<>>, messages |-> <<[type |-> "target_closed"]>>]
    ELSE IF ShouldResume(paused_by_app)
    THEN [commands |-> <<[source |-> target_source, command |-> "play"]>>,
          messages |-> <<[type |-> "set_paused_flag", data |-> FALSE]>>]
    ELSE [commands |-> <<>>, messages |-> <<>>]

\* worker.py:237-265  what the detection step does once the scan is done:
\* the calls of control_media and the messages put on the UI queue
Decide(is_interfering, state, target_source, paused_by_app, manually_paused, cfg) ==
    IF ~TargetInSnapshot(state, target_source)
    THEN [commands |-> <<>>, messages |-> <<[type |-> "target_closed"]>>]
    ELSE IF is_interfering
    THEN IF ShouldPause(state, target_source, paused_by_app)
         THEN [commands |-> <<[source |-> target_source, command |-> "pause"]>>,
               messages |-> <<[type |-> "set_paused_flag", data |-> TRUE]>>]
         ELSE [commands |-> <<>>, messages |-> <<>>]
    ELSE IF ShouldResume(paused_by_app)
    THEN IF KeepPaused(cfg, manually_paused)
         THEN [commands |-> <<>>,
               messages |-> <<[type |-> "set_paused_flag", data |-> FALSE]>>]
         ELSE [commands |-> <<[source |-> target_source, command |-> "play"]>>,
               messages |-> <<[type |-> "set_paused_flag", data |-> FALSE]>>]
    ELSE [commands |-> <<>>, messages |-> <<>>]

(***************************************************************************)
(* media_controller.py                                                     *)
(***************************************************************************)
\* MediaController.control_media: the command reaches the session with that
\* source id, if there is one
ControlMedia(real, app_id, command) ==
    IF app_id \in DOMAIN real /\ real[app_id] # "Absent"
    THEN [real EXCEPT ![app_id] = IF command = "play" THEN "Playing"
                                  ELSE IF command = "pause" THEN "Paused"
                                  ELSE @]
    ELSE real

\* MediaController.get_media_sessions: source id -> status of the sessions
\* that exist
GetMediaSessions(real) ==
    [s \in {x \in DOMAIN real : real[x] # "Absent"} |-> real[s]]

(***************************************************************************)
(* worker.py: session enrichment                                           *)
(***************************************************************************)
\* worker.py:279-280  pid of the audio process whose normalised name is the
\* session's lower-cased display name (None when there is none)
ResolvePid(source, audio_apps) ==
    LET hits == {i \in DOMAIN audio_apps :
                    NormalizedProcessName(audio_apps[i].process_name) = DisplayNameLower(source)}
    IN IF hits = {} THEN NoPid
       ELSE audio_apps[CHOOSE i \in hits : \A j \in hits : j <= i].pid

\* worker.py:275-293  current_state_for_ui
Enrich(media_sessions, audio_apps) ==
    [s \in DOMAIN media_sessions |->
        [status |-> media_sessions[s], pid |-> ResolvePid(s, audio_apps)]]

\* worker.py:296-303  an external pause of the target is recognised
ExternalPauseSeen(target, state, current, paused_by_app) ==
    /\ target # NoneTarget
    /\ state # NoneState /\ state # EmptyDict
    /\ target.source \in DOMAIN state /\ state[target.source].status = "Playing"
    /\ target.source \in DOMAIN current /\ current[target.source].status = "Paused"
    /\ ~paused_by_app

(***************************************************************************)
(* State                                                                   *)
(***************************************************************************)
VARIABLES
    \* the machine
    sessions,           \* source id -> "Absent" or the session's playback status
    events,             \* how many things the outside world has done
    stored_config,      \* config.yaml as found at start-up
    \* config.py: config_manager.config
    config,
    \* worker.py: BackgroundWorker
    target_app_info,
    was_paused_by_app,
    was_manually_paused,
    last_known_state,
    latest_audio_apps_with_icons,
    delay_timers,       \* process name -> seconds since its timer was started
    worker_queue,
    ui_queue,
    \* worker.py: the periodic task
    pc,                 \* where _periodic_check_loop_async stands
    media_sessions,     \* what its get_media_sessions call returns
    \* worker.py: the tasks on_sessions_changed has scheduled on the loop
    enrichment_tasks,   \* how many of them have not run yet
    \* app.py: AudioFocusApp and AppListWindow
    ui_target_app_info,
    ui_was_paused_by_app,
    entries,            \* AppListWindow.entries: source id -> the app_info shown
    target_app_source,  \* AppListWindow.target_app_source
    app_list_window,    \* AudioFocusApp.app_list_window exists
    \* a function of the program called on its own
    call,               \* the function and its arguments
    result,             \* what the call returned
    \* worker.py: the life of the worker thread
    stop_event,         \* BackgroundWorker.stop_event is set
    loop,               \* BackgroundWorker.loop: "None", "made" or "running"
    async_stop_event,   \* BackgroundWorker.async_stop_event: "None", "clear" or "set"
    pending_set,        \* stop() has handed async_stop_event.set to the loop
    run_pc,             \* where run() and its main_logic stand
    initialization,     \* MediaController.initialize: "pending", "ok" or "failed"
    handler_registered, \* on_sessions_changed is registered with the manager
    periodic_pc,        \* where the periodic task stands
    cycles,             \* periodic cycles started
    failures,           \* exceptions raised inside the cycles
    raised,             \* the step at which the step just taken raised, or "None"
    commanded,          \* a play or pause command has been sent
    status_label,       \* StatusBar.status_label: "monitoring" or "paused"
    \* worker.py and app.py: the caches of audio applications, as objects
    all_known_apps_cache,   \* process name -> the dict of that application
    latest_list,            \* the list object latest_audio_apps_with_icons names
    current_audio_apps,     \* AudioFocusApp.current_audio_apps: a list object
    \* observation
    sent_commands,      \* the control_media calls of the step just taken
    stopped_by,         \* source id -> who last turned the session Playing -> Paused
    streak_age,         \* delay-mode process name -> seconds since the first sample
                        \* of its current playing streak
    toggle_status,      \* per pending control_app: the status the user's menu showed
    reported_state      \* the snapshot the last enrichment run built

vars == <<sessions, events, stored_config, config, target_app_info, was_paused_by_app,
          was_manually_paused, last_known_state, latest_audio_apps_with_icons,
          delay_timers, worker_queue, ui_queue, pc, media_sessions, enrichment_tasks,
          ui_target_app_info, ui_was_paused_by_app, entries,
          target_app_source, sent_commands, stopped_by, streak_age, toggle_status,
          app_list_window, call, result, stop_event, loop, async_stop_event,
          pending_set, run_pc, initialization, handler_registered, periodic_pc,
          cycles, failures, raised, commanded, status_label,
          all_known_apps_cache, latest_list, current_audio_apps, reported_state>>

machine_vars == <<sessions, stopped_by>>
config_vars == <<stored_config, config>>
engine_vars == <<target_app_info, was_paused_by_app, was_manually_paused,
                 last_known_state, latest_audio_apps_with_icons, delay_timers,
                 reported_state>>
task_vars == <<pc, media_sessions>>
ui_vars == <<ui_target_app_info, ui_was_paused_by_app, entries, target_app_source,
             app_list_window>>
call_vars == <<call, result>>
\* what the steps of the running program leave alone
life_vars == <<stop_event, loop, async_stop_event, pending_set, run_pc, initialization,
               handler_registered, periodic_pc, cycles, failures, raised, commanded,
               status_label>>
cache_vars == <<all_known_apps_cache, latest_list, current_audio_apps>>
other_vars == <<call_vars, life_vars, cache_vars>>

\* worker.py:117  the list BackgroundWorker.__init__ makes
WorkerInitList == 0

\* app.py:336  the list AudioFocusApp.__init__ makes
UiInitList == -1

\* worker.py:117-118, app.py:336  the caches after construction
CachesInit ==
    /\ all_known_apps_cache = EmptyDict
    /\ latest_list = WorkerInitList
    /\ current_audio_apps = [list |-> UiInitList, apps |-> <<>>]

\* BackgroundWorker.__init__, AudioFocusApp.__init__, ConfigManager.__init__;
\* the media manager is initialised, the periodic task is at its first cycle
\* and both players have a session that plays
ProgramInit ==
    /\ sessions = [s \in Sources |-> "Playing"]
    /\ events = 0
    /\ stored_config \in ConfigFiles
    /\ config = LoadConfig(stored_config)
    /\ target_app_info = NoneTarget
    /\ was_paused_by_app = FALSE
    /\ was_manually_paused = FALSE
    /\ last_known_state = NoneState
    /\ reported_state = NoneState
    /\ latest_audio_apps_with_icons = <<>>
    /\ delay_timers = EmptyDict
    /\ worker_queue = <<>>
    /\ ui_queue = <<>>
    /\ pc = "queue"
    /\ media_sessions = EmptyDict
    /\ enrichment_tasks = 0
    /\ ui_target_app_info = NoneTarget
    /\ ui_was_paused_by_app = FALSE
    /\ entries = EmptyDict
    /\ target_app_source = "None"
    /\ app_list_window = TRUE
    /\ sent_commands = <<>>
    /\ stopped_by = [s \in Sources |-> "external"]
    /\ streak_age = EmptyDict
    /\ toggle_status = <<>>
    /\ CachesInit

\* no function is being called on its own
NoCall == [function |-> "None"]
NotReturned == [returned |-> FALSE]

\* the state of the running program
program_vars == <<machine_vars, events, config_vars, engine_vars, worker_queue, ui_queue,
                  task_vars, enrichment_tasks, ui_vars, sent_commands, streak_age,
                  toggle_status, cache_vars>>

\* worker.py:358-388  the worker thread has been started, the media manager
\* is initialised, the handler is registered, the periodic task is created
\* and main_logic waits for the stop
Started ==
    /\ stop_event = FALSE
    /\ loop = "running"
    /\ async_stop_event = "clear"
    /\ pending_set = FALSE
    /\ run_pc = "wait"
    /\ initialization = "ok"
    /\ handler_registered = TRUE
    /\ periodic_pc = "top"
    /\ cycles = 0
    /\ failures = 0
    /\ raised = "None"
    /\ commanded = FALSE
    /\ status_label = "monitoring"

\* the program just started without a configuration file
ProgramIdle == ProgramInit /\ stored_config = NoFile /\ Started

\* the program as it runs: started, and nothing called on its own
Init ==
    /\ ProgramInit
    /\ Started
    /\ call = NoCall
    /\ result = NotReturned

(***************************************************************************)
(* The machine: players and their user                                     *)
(***************************************************************************)
\* one more thing done by the outside world
OutsideEvent ==
    /\ events < MaxEvents
    /\ events' = events + 1

\* a player is paused by its user or by another program
ExternalPause(s) ==
    /\ UNCHANGED other_vars
    /\ OutsideEvent
    /\ UNCHANGED enrichment_tasks
    /\ sessions[s] = "Playing"
    /\ sessions' = [sessions EXCEPT ![s] = "Paused"]
    /\ stopped_by' = [stopped_by EXCEPT ![s] = "external"]
    /\ sent_commands' = <<>>
    /\ UNCHANGED <<config_vars, engine_vars, worker_queue, ui_queue, task_vars,
                   ui_vars, streak_age, toggle_status>>

\* a player is resumed from outside
ExternalPlay(s) ==
    /\ UNCHANGED other_vars
    /\ OutsideEvent
    /\ UNCHANGED enrichment_tasks
    /\ sessions[s] = "Paused"
    /\ sessions' = [sessions EXCEPT ![s] = "Playing"]
    /\ sent_commands' = <<>>
    /\ UNCHANGED <<stopped_by, config_vars, engine_vars, worker_queue, ui_queue,
                   task_vars, ui_vars, streak_age, toggle_status>>

\* worker.py:378-381  on_sessions_changed: the session manager reports that
\* the list of sessions changed, and one more enrichment run is scheduled
OnSessionsChanged == enrichment_tasks' = enrichment_tasks + 1

\* a player closes its media session
SessionClosed(s) ==
    /\ UNCHANGED other_vars
    /\ OutsideEvent
    /\ OnSessionsChanged
    /\ sessions[s] # "Absent"
    /\ sessions' = [sessions EXCEPT ![s] = "Absent"]
    /\ sent_commands' = <<>>
    /\ UNCHANGED <<stopped_by, config_vars, engine_vars, worker_queue, ui_queue,
                   task_vars, ui_vars, streak_age, toggle_status>>

\* a player opens a media session
SessionOpened(s, status) ==
    /\ UNCHANGED other_vars
    /\ OutsideEvent
    /\ OnSessionsChanged
    /\ sessions[s] = "Absent"
    /\ sessions' = [sessions EXCEPT ![s] = status]
    /\ stopped_by' = [stopped_by EXCEPT ![s] = "external"]
    /\ sent_commands' = <<>>
    /\ UNCHANGED <<config_vars, engine_vars, worker_queue, ui_queue, task_vars,
                   ui_vars, streak_age, toggle_status>>

\* the effect of one control_media call on the machine
Commanded(app_id, command, who) ==
    /\ sessions' = ControlMedia(sessions, app_id, command)
    /\ stopped_by' =
         IF command = "pause" /\ app_id \in Sources /\ sessions[app_id] = "Playing"
         THEN [stopped_by EXCEPT ![app_id] = who]
         ELSE stopped_by

(***************************************************************************)
(* app.py: the presentation shell                                          *)
(***************************************************************************)
\* a shell that reports its target to the worker and leaves the flag out
StateUpdateWithoutFlag(target, paused) ==
    [type |-> "state_update", data |-> [target |-> target, paused |-> FALSE]]

\* AudioFocusApp._send_state_to_worker
StateUpdate(target, paused) ==
    [type |-> "state_update", data |-> [target |-> target, paused |-> paused]]

\* AppListWindow._on_app_select and AudioFocusApp.on_target_app_selected: the
\* user presses the anchor button of the entry shown for source id s
OnAppSelect(s) ==
    /\ UNCHANGED other_vars
    /\ OutsideEvent
    /\ UNCHANGED enrichment_tasks
    /\ s \in DOMAIN entries
    /\ Len(worker_queue) < MaxWorkerQueue
    /\ LET app_info == [source |-> s, pid |-> entries[s].pid]
           selected == IF target_app_source = s THEN NoneTarget ELSE app_info
       IN  /\ target_app_source' = selected.source
           /\ ui_target_app_info' = selected
           /\ ui_was_paused_by_app' = FALSE
           /\ worker_queue' = Append(worker_queue, StateUpdate(selected, FALSE))
    /\ sent_commands' = <<>>
    /\ UNCHANGED <<machine_vars, config_vars, engine_vars, ui_queue, task_vars,
                   entries, app_list_window, streak_age, toggle_status>>

\* AppEntry._on_right_click and AudioFocusApp.on_app_control: the user picks
\* the play/pause item of the entry's menu
OnAppControlToggle(s) ==
    /\ UNCHANGED other_vars
    /\ OutsideEvent
    /\ UNCHANGED enrichment_tasks
    /\ s \in DOMAIN entries
    /\ entries[s].status \in {"Playing", "Paused"}
    /\ Len(worker_queue) < MaxWorkerQueue
    /\ worker_queue' = Append(worker_queue,
            [type |-> "control_app", data |-> [source |-> s, command |-> "toggle"]])
    /\ toggle_status' = Append(toggle_status, entries[s].status)
    /\ sent_commands' = <<>>
    /\ UNCHANGED <<machine_vars, config_vars, engine_vars, ui_queue, task_vars,
                   ui_vars, streak_age>>

\* a shell that takes the paused flag from set_paused_flag and does not tell
\* the worker
ApplyUiMessageSilent(ui, message) ==
    CASE message.type = "update_list" ->
            IF ui.app_list_window THEN [ui EXCEPT !.entries = message.data] ELSE ui
      [] message.type = "set_paused_flag" ->
            [ui EXCEPT !.was_paused_by_app = message.data]
      [] message.type = "target_closed" ->
            [ui EXCEPT !.target_app_info = NoneTarget,
                       !.was_paused_by_app = FALSE,
                       !.sent = Append(@, StateUpdate(NoneTarget, FALSE))]
      [] OTHER -> ui

\* app.py:476-492  what process_ui_queue does with one message; ui holds the
\* application's fields and the messages sent to the worker so far
ApplyUiMessage(ui, message) ==
    CASE message.type = "update_list" ->
            IF ui.app_list_window THEN [ui EXCEPT !.entries = message.data] ELSE ui
      [] message.type = "set_paused_flag" ->
            [ui EXCEPT !.was_paused_by_app = message.data,
                       !.sent = Append(@, StateUpdate(ui.target_app_info, message.data))]
      [] message.type = "target_closed" ->
            [ui EXCEPT !.target_app_info = NoneTarget,
                       !.was_paused_by_app = FALSE,
                       !.sent = Append(@, StateUpdate(NoneTarget, FALSE))]
      [] OTHER -> ui

\* app.py:466-467  the loop over the messages that are pending
RECURSIVE ApplyUiMessages(_, _)
ApplyUiMessages(ui, messages) ==
    IF messages = <<>> THEN ui
    ELSE ApplyUiMessages(ApplyUiMessage(ui, Head(messages)), Tail(messages))

\* AudioFocusApp.process_ui_queue: one run of the 100 ms callback with
\* messages pending
ProcessUiQueue ==
    /\ UNCHANGED other_vars
    /\ ui_queue # <<>>
    /\ LET ui == ApplyUiMessages([target_app_info |-> ui_target_app_info,
                                  was_paused_by_app |-> ui_was_paused_by_app,
                                  entries |-> entries,
                                  app_list_window |-> app_list_window,
                                  sent |-> <<>>], ui_queue)
       IN  /\ Len(worker_queue) + Len(ui.sent) <= MaxWorkerQueue
           /\ ui_target_app_info' = ui.target_app_info
           /\ ui_was_paused_by_app' = ui.was_paused_by_app
           /\ entries' = ui.entries
           /\ worker_queue' = worker_queue \o ui.sent
    /\ ui_queue' = <<>>
    /\ sent_commands' = <<>>
    /\ UNCHANGED <<machine_vars, events, enrichment_tasks, config_vars, engine_vars, task_vars,
                   target_app_source, app_list_window, streak_age, toggle_status>>

(***************************************************************************)
(* worker.py: _handle_worker_queue                                         *)
(***************************************************************************)
\* a worker that drops the manual-pause flag on every state_update
ResetsManualPauseAlways(target, state) == TRUE

\* worker.py:158  the reset of the manual-pause flag on a state_update
ResetsManualPause(target, state) ==
    \/ target = NoneTarget
    \/ /\ state # NoneState /\ state # EmptyDict
       /\ target.source \notin DOMAIN state

\* message state_update
HandleStateUpdate ==
    /\ UNCHANGED other_vars
    /\ pc = "queue"
    /\ worker_queue # <<>> /\ Head(worker_queue).type = "state_update"
    /\ LET data == Head(worker_queue).data
       IN  /\ target_app_info' = data.target
           /\ was_paused_by_app' = data.paused
           /\ was_manually_paused' =
                IF ResetsManualPause(data.target, last_known_state)
                THEN FALSE
                ELSE was_manually_paused
    /\ worker_queue' = Tail(worker_queue)
    /\ sent_commands' = <<>>
    /\ UNCHANGED <<machine_vars, events, enrichment_tasks, config_vars, last_known_state, reported_state,
                   latest_audio_apps_with_icons, delay_timers, ui_queue, task_vars,
                   ui_vars, streak_age, toggle_status>>

\* worker.py:180  the command a control_app message turns into
ToggleCommand(status) == IF status = "Playing" THEN "pause" ELSE "play"

\* message control_app
HandleControlApp ==
    /\ UNCHANGED other_vars
    /\ pc = "queue"
    /\ worker_queue # <<>> /\ Head(worker_queue).type = "control_app"
    /\ LET data == Head(worker_queue).data
           source == Get(data, "source", "None")
           status == Get(data, "status", "None")
           is_target_app == target_app_info # NoneTarget /\ source = target_app_info.source
       IN  /\ was_manually_paused' =
                IF is_target_app /\ status = "Playing" THEN TRUE ELSE was_manually_paused
           /\ Commanded(source, ToggleCommand(status), "external")
           /\ sent_commands' = <<[source |-> source, command |-> ToggleCommand(status)]>>
    /\ last_known_state' = NoneState
    /\ UNCHANGED reported_state
    /\ worker_queue' = Tail(worker_queue)
    /\ toggle_status' = Tail(toggle_status)
    /\ UNCHANGED <<events, enrichment_tasks, config_vars, target_app_info, was_paused_by_app,
                   latest_audio_apps_with_icons, delay_timers, ui_queue, task_vars,
                   ui_vars, streak_age>>

(***************************************************************************)
(* worker.py: _update_media_sessions_list_async                            *)
(***************************************************************************)
\* the pcs at which the periodic task is suspended, so that the task of a
\* sessions_changed event can run on the loop
Suspended == pc \in {"enrich_wait", "sleep"}

\* an enrichment run that puts update_list whatever the snapshot is
EnrichmentPutsAlways(ms, target, state, paused_by_app, manually_paused, audio_apps) ==
    LET current_state_for_ui == Enrich(ms, audio_apps)
    IN [was_manually_paused |->
            IF ExternalPauseSeen(target, state, current_state_for_ui, paused_by_app)
            THEN TRUE
            ELSE manually_paused,
        last_known_state |-> current_state_for_ui,
        messages |-> <<[type |-> "update_list", data |-> current_state_for_ui]>>]

\* worker.py:272-308  the part of an enrichment run that follows the await
\* of get_media_sessions, ms being what that call returned: the flag and
\* the snapshot it leaves and the messages it puts
Enrichment(ms, target, state, paused_by_app, manually_paused, audio_apps) ==
    LET current_state_for_ui == Enrich(ms, audio_apps)
    IN [was_manually_paused |->
            IF ExternalPauseSeen(target, state, current_state_for_ui, paused_by_app)
            THEN TRUE
            ELSE manually_paused,
        last_known_state |-> current_state_for_ui,
        messages |->
            IF current_state_for_ui # state
            THEN <<[type |-> "update_list", data |-> current_state_for_ui]>>
            ELSE <<>>]

\* worker.py:316-319  the drain finds the queue empty (queue.Empty) and the
\* cycle's enrichment calls get_media_sessions, awaiting the sessions' properties
EnrichBegin ==
    /\ UNCHANGED other_vars
    /\ pc = "queue"
    /\ worker_queue = <<>>
    /\ media_sessions' = GetMediaSessions(sessions)
    /\ pc' = "enrich_wait"
    /\ sent_commands' = <<>>
    /\ UNCHANGED <<machine_vars, events, enrichment_tasks, config_vars, engine_vars, worker_queue, ui_queue,
                   ui_vars, streak_age, toggle_status>>

\* worker.py:267-310  an enrichment run that on_sessions_changed scheduled:
\* the loop runs it while the periodic task is suspended.  The run is taken
\* as one step: its own await of get_media_sessions is not split
SessionsChanged ==
    /\ UNCHANGED other_vars
    /\ Suspended
    /\ enrichment_tasks > 0
    /\ enrichment_tasks' = enrichment_tasks - 1
    /\ LET run == Enrichment(GetMediaSessions(sessions), target_app_info, last_known_state,
                             was_paused_by_app, was_manually_paused,
                             latest_audio_apps_with_icons)
       IN  /\ Len(ui_queue) + Len(run.messages) <= MaxUiQueue
           /\ was_manually_paused' = run.was_manually_paused
           /\ last_known_state' = run.last_known_state
           /\ reported_state' = run.last_known_state
           /\ ui_queue' = ui_queue \o run.messages
    /\ sent_commands' = <<>>
    /\ UNCHANGED <<machine_vars, events, config_vars, target_app_info, was_paused_by_app,
                   latest_audio_apps_with_icons, delay_timers, worker_queue, task_vars,
                   ui_vars, streak_age, toggle_status>>

(***************************************************************************)
(* worker.py: the rest of one periodic cycle                               *)
(***************************************************************************)
\* names whose whitelist entry asks for a delay, in the dialog's value or
\* in the detector's literal
DelayModeNames(cfg) ==
    LET whitelist == ConfigGet(cfg, "audio", "whitelist", EmptyDict)
    IN {n \in DOMAIN whitelist : whitelist[n].mode \in {"delay", DetectorDelayMode}}

\* the age of each delay-mode process's current playing streak after a sample
StreakAge(streak, audio_apps, cfg) ==
    [n \in PlayingAppNames(audio_apps) \cap DelayModeNames(cfg) |->
        IF n \in DOMAIN streak THEN streak[n] ELSE 0]

\* one second passes for a map of ages
Older(ages) ==
    [n \in DOMAIN ages |-> IF ages[n] < MaxAge THEN ages[n] + 1 ELSE MaxAge]

\* worker.py:187-265  _check_audio_and_control_target: the timers it leaves,
\* the control_media calls it makes and the messages it puts
CheckAudioAndControlTarget(audio_apps, target, state, paused_by_app, manually_paused, cfg, timers) ==
    IF target = NoneTarget
    THEN [delay_timers |-> timers, commands |-> <<>>, messages |-> <<>>]
    ELSE LET whitelist == ConfigGet(cfg, "audio", "whitelist", EmptyDict)
             scan == ScanForInterference(audio_apps, 1, target.pid, whitelist,
                                         CleanDelayTimers(timers, audio_apps))
             decision == Decide(scan.is_interfering, state, target.source,
                                paused_by_app, manually_paused, cfg)
         IN [delay_timers |-> scan.delay_timers,
             commands |-> decision.commands,
             messages |-> decision.messages]

\* a cycle that puts update_audio_apps after the detection step
CycleMessagesSampleLast(run_messages, check_messages) ==
    run_messages \o check_messages \o <<[type |-> "update_audio_apps"]>>

\* worker.py:318-347  the messages a cycle puts on the window's queue: those
\* of the enrichment run, update_audio_apps, those of the detection step
CycleMessages(run_messages, check_messages) ==
    run_messages \o <<[type |-> "update_audio_apps"]>> \o check_messages

\* worker.py:319-347  the cycle's enrichment run completes and, with no
\* suspension in between, the audio sessions are sampled, the sample is
\* stored, update_audio_apps is put and the detection step runs
FinishCycle ==
    /\ UNCHANGED other_vars
    /\ pc = "enrich_wait"
    /\ \E audio_apps \in Samples :
         LET run == Enrichment(media_sessions, target_app_info, last_known_state,
                               was_paused_by_app, was_manually_paused,
                               latest_audio_apps_with_icons)
             check == CheckAudioAndControlTarget(audio_apps, target_app_info,
                          run.last_known_state, was_paused_by_app,
                          run.was_manually_paused, config, delay_timers)
             puts == CycleMessages(run.messages, check.messages)
         IN  /\ Len(ui_queue) + Len(puts) <= MaxUiQueue
             /\ was_manually_paused' = run.was_manually_paused
             /\ last_known_state' = run.last_known_state
             /\ reported_state' = run.last_known_state
             /\ latest_audio_apps_with_icons' = audio_apps
             /\ delay_timers' = check.delay_timers
             /\ sent_commands' = check.commands
             /\ ui_queue' = ui_queue \o puts
             /\ IF check.commands = <<>>
                THEN UNCHANGED machine_vars
                ELSE Commanded(check.commands[1].source, check.commands[1].command, "engine")
             /\ streak_age' = StreakAge(streak_age, audio_apps, config)
    /\ media_sessions' = EmptyDict
    /\ pc' = "sleep"
    /\ UNCHANGED <<events, enrichment_tasks, config_vars, target_app_info, was_paused_by_app,
                   worker_queue, ui_vars, toggle_status>>

\* worker.py:350  asyncio.sleep(1): a second passes
Sleep ==
    /\ UNCHANGED other_vars
    /\ pc = "sleep"
    /\ delay_timers' = Older(delay_timers)
    /\ streak_age' = Older(streak_age)
    /\ pc' = "queue"
    /\ sent_commands' = <<>>
    /\ UNCHANGED <<machine_vars, events, enrichment_tasks, config_vars, target_app_info, was_paused_by_app,
                   was_manually_paused, last_known_state, reported_state, latest_audio_apps_with_icons,
                   worker_queue, ui_queue, media_sessions, ui_vars, toggle_status>>

(***************************************************************************)
(* The program                                                             *)
(***************************************************************************)
Next ==
    \/ \E s \in Sources : ExternalPause(s)
    \/ \E s \in Sources : ExternalPlay(s)
    \/ \E s \in Sources : SessionClosed(s)
    \/ \E s \in Sources, status \in Statuses : SessionOpened(s, status)
    \/ \E s \in Sources : OnAppSelect(s)
    \/ \E s \in Sources : OnAppControlToggle(s)
    \/ ProcessUiQueue
    \/ HandleStateUpdate
    \/ HandleControlApp
    \/ EnrichBegin
    \/ SessionsChanged
    \/ FinishCycle
    \/ Sleep

Spec == Init /\ [][Next]_vars

(***************************************************************************)
(* The list window closed and shown again, and the refresh messages        *)
(***************************************************************************)
\* app.py:511-513  force_ui_refresh: the user picks Refresh in the View menu
ForceUiRefresh ==
    /\ OutsideEvent
    /\ app_list_window
    /\ Len(worker_queue) < MaxWorkerQueue
    /\ worker_queue' = Append(worker_queue, [type |-> "force_refresh"])
    /\ sent_commands' = <<>>
    /\ UNCHANGED <<machine_vars, enrichment_tasks, config_vars, engine_vars, ui_queue,
                   task_vars, ui_vars, streak_age, toggle_status, other_vars>>

\* app.py:694-699  on_closing: the user closes the window; the list view is
\* destroyed with its entries and its selection, the application goes on
OnClosing ==
    /\ OutsideEvent
    /\ app_list_window
    /\ Len(worker_queue) < MaxWorkerQueue
    /\ app_list_window' = FALSE
    /\ entries' = EmptyDict
    /\ target_app_source' = "None"
    /\ worker_queue' = Append(worker_queue, [type |-> "ui_destroyed"])
    /\ sent_commands' = <<>>
    /\ UNCHANGED <<machine_vars, enrichment_tasks, config_vars, engine_vars, ui_queue,
                   task_vars, ui_target_app_info, ui_was_paused_by_app, streak_age,
                   toggle_status, other_vars>>

\* app.py:587-602  show_window: the user asks for the window from the tray;
\* a new list view is made and takes its selection from the application
ShowWindow ==
    /\ OutsideEvent
    /\ ~app_list_window
    /\ Len(worker_queue) < MaxWorkerQueue
    /\ app_list_window' = TRUE
    /\ entries' = EmptyDict
    /\ target_app_source' = ui_target_app_info.source
    /\ worker_queue' = Append(worker_queue, [type |-> "force_refresh"])
    /\ sent_commands' = <<>>
    /\ UNCHANGED <<machine_vars, enrichment_tasks, config_vars, engine_vars, ui_queue,
                   task_vars, ui_target_app_info, ui_was_paused_by_app, streak_age,
                   toggle_status, other_vars>>

\* worker.py:161-163  message force_refresh: the cached snapshot is dropped
HandleForceRefresh ==
    /\ pc = "queue"
    /\ worker_queue # <<>> /\ Head(worker_queue).type = "force_refresh"
    /\ last_known_state' = NoneState
    /\ UNCHANGED reported_state
    /\ worker_queue' = Tail(worker_queue)
    /\ sent_commands' = <<>>
    /\ UNCHANGED <<machine_vars, events, enrichment_tasks, config_vars, target_app_info,
                   was_paused_by_app, was_manually_paused, latest_audio_apps_with_icons,
                   delay_timers, ui_queue, task_vars, ui_vars, streak_age,
                   toggle_status, other_vars>>

\* worker.py:164-166  message ui_destroyed: the cached snapshot is dropped
HandleUiDestroyed ==
    /\ pc = "queue"
    /\ worker_queue # <<>> /\ Head(worker_queue).type = "ui_destroyed"
    /\ last_known_state' = NoneState
    /\ UNCHANGED reported_state
    /\ worker_queue' = Tail(worker_queue)
    /\ sent_commands' = <<>>
    /\ UNCHANGED <<machine_vars, events, enrichment_tasks, config_vars, target_app_info,
                   was_paused_by_app, was_manually_paused, latest_audio_apps_with_icons,
                   delay_timers, ui_queue, task_vars, ui_vars, streak_age,
                   toggle_status, other_vars>>

\* the program found with the default configuration and with any of its
\* players holding a session or none
InitRefresh ==
    /\ sessions \in [Sources -> {"Absent", "Playing"}]
    /\ events = 0
    /\ stored_config = NoFile
    /\ config = LoadConfig(stored_config)
    /\ target_app_info = NoneTarget
    /\ was_paused_by_app = FALSE
    /\ was_manually_paused = FALSE
    /\ last_known_state = NoneState
    /\ reported_state = NoneState
    /\ latest_audio_apps_with_icons = <<>>
    /\ delay_timers = EmptyDict
    /\ worker_queue = <<>>
    /\ ui_queue = <<>>
    /\ pc = "queue"
    /\ media_sessions = EmptyDict
    /\ enrichment_tasks = 0
    /\ ui_target_app_info = NoneTarget
    /\ ui_was_paused_by_app = FALSE
    /\ entries = EmptyDict
    /\ target_app_source = "None"
    /\ app_list_window = TRUE
    /\ sent_commands = <<>>
    /\ stopped_by = [s \in Sources |-> "external"]
    /\ streak_age = EmptyDict
    /\ toggle_status = <<>>
    /\ CachesInit
    /\ Started
    /\ call = NoCall
    /\ result = NotReturned

\* the program with its window closed, shown again and refreshed; the
\* play/pause item of the entries' menu is left alone
NextRefresh ==
    \/ \E s \in Sources : ExternalPause(s)
    \/ \E s \in Sources : ExternalPlay(s)
    \/ \E s \in Sources : SessionClosed(s)
    \/ \E s \in Sources, status \in Statuses : SessionOpened(s, status)
    \/ \E s \in Sources : OnAppSelect(s)
    \/ ForceUiRefresh
    \/ OnClosing
    \/ ShowWindow
    \/ ProcessUiQueue
    \/ HandleStateUpdate
    \/ HandleForceRefresh
    \/ HandleUiDestroyed
    \/ EnrichBegin
    \/ SessionsChanged
    \/ FinishCycle
    \/ Sleep

SpecRefresh == InitRefresh /\ [][NextRefresh]_vars

(***************************************************************************)
(* settings_window.py: the whitelist of the settings window and its save   *)
(***************************************************************************)
\* the processes the settings window lists
SettingsNames == {"audiodg.exe", "chrome.exe"}

\* the delays the spinbox is given
DelayChoices == {1, DelayChoice}

\* the settings an entry has when the window opens: an entry of the built-in
\* defaults or an entry of a validated file
InitialSettings ==
    {[mode |-> "ignore"]}
    \cup {[mode |-> m, delay_seconds |-> d] : m \in {"normal", "ignore", "delay"},
                                             d \in DelayChoices}

\* SettingsWindow.set_initial_values: the whitelists the window is opened with
InitialWhitelists == UNION {[names -> InitialSettings] : names \in SUBSET SettingsNames}

\* a save that returns the whitelist as it is
GetValuesKeepsAll(whitelist) == whitelist

\* SettingsWindow.get_values: the whitelist it returns
GetValues(whitelist) ==
    [app \in {a \in DOMAIN whitelist : Get(whitelist[a], "mode", "None") # "normal"} |->
        whitelist[app]]

\* the settings window is opened on a whitelist
InitSettings ==
    /\ ProgramIdle
    /\ call \in {[function |-> "get_values", whitelist |-> w] : w \in InitialWhitelists}
    /\ result = NotReturned

\* WhitelistEntry._on_update and SettingsWindow._on_update_whitelist: the
\* user changes the mode or the delay of one entry
UpdateWhitelistEntry(process_name, label, delay) ==
    /\ result = NotReturned
    /\ call' = [call EXCEPT !.whitelist =
                    OnUpdateWhitelist(@, process_name, OnUpdate(label, delay))]
    /\ UNCHANGED <<result, program_vars, life_vars>>

\* SettingsWindow.save_and_close: the values are taken and the window closes
SaveAndClose ==
    /\ result = NotReturned
    /\ result' = [returned |-> TRUE, whitelist |-> GetValues(call.whitelist)]
    /\ UNCHANGED <<call, program_vars, life_vars>>

NextSettings ==
    \/ \E process_name \in SettingsNames, label \in DOMAIN MODE_MAP, delay \in DelayChoices :
          UpdateWhitelistEntry(process_name, label, delay)
    \/ SaveAndClose

SpecSettings == InitSettings /\ [][NextSettings]_vars

(***************************************************************************)
(* The policy lookup of the detector and of the validation, on its own     *)
(***************************************************************************)
\* the modes an entry can carry: the dialog's values and the detector's
\* literals
EntryModes == {"normal", "ignore", "delay", DetectorIgnoreMode, DetectorDelayMode}

\* whitelists for audiodg.exe: no entry, an entry without delay_seconds, an
\* entry with it
PolicyWhitelists ==
    {EmptyDict}
    \cup {[a \in {"audiodg.exe"} |-> [mode |-> m]] : m \in EntryModes}
    \cup {[a \in {"audiodg.exe"} |-> [mode |-> m, delay_seconds |-> d]] :
             m \in EntryModes, d \in DelayChoices}

\* the delay timers the detector can hold for audiodg.exe
PolicyTimers == {EmptyDict} \cup {[a \in {"audiodg.exe"} |-> age] : age \in 0..MaxAge}

\* the lookup is called for a whitelist, a sample and the timers of the
\* moment; the target is the process of pid 1
InitPolicy ==
    /\ ProgramIdle
    /\ call \in {[function |-> "policy", whitelist |-> w, audio_apps |-> sample,
                  target_pid |-> 1, timers |-> t] :
                     w \in PolicyWhitelists, sample \in Samples, t \in PolicyTimers}
    /\ result = NotReturned

\* worker.py:203-235  the detector looks the playing processes up
DetectorLookup ==
    /\ result = NotReturned
    /\ result' = [returned |-> TRUE, by |-> "detector",
                  scan |-> ScanForInterference(call.audio_apps, 1, call.target_pid,
                              call.whitelist,
                              CleanDelayTimers(call.timers, call.audio_apps))]
    /\ UNCHANGED <<call, program_vars, life_vars>>

\* config.py:71-79  the validation reads the entries of a file
ValidationLookup ==
    /\ result = NotReturned
    /\ result' = [returned |-> TRUE, by |-> "validation",
                  whitelist |-> ValidateConfig([audio |-> [whitelist |-> call.whitelist]])
                                    .audio.whitelist]
    /\ UNCHANGED <<call, program_vars, life_vars>>

NextPolicy == DetectorLookup \/ ValidationLookup

SpecPolicy == InitPolicy /\ [][NextPolicy]_vars

(***************************************************************************)
(* worker.py: the life of the worker thread, from the start of run() to    *)
(* its return.  What a periodic cycle does to the sessions is left to the  *)
(* actions above; here a cycle is its steps, each of which may raise       *)
(***************************************************************************)
\* app.py:342-344, worker.py:107-127, app.py:38  the thread is started on a
\* new BackgroundWorker and the status bar is made
InitLife ==
    /\ ProgramInit /\ stored_config = NoFile
    /\ call = NoCall
    /\ result = NotReturned
    /\ stop_event = FALSE
    /\ loop = "None"
    /\ async_stop_event = "None"
    /\ pending_set = FALSE
    /\ run_pc = "start"
    /\ initialization = "pending"
    /\ handler_registered = FALSE
    /\ periodic_pc = "none"
    /\ cycles = 0
    /\ failures = 0
    /\ raised = "None"
    /\ commanded = FALSE
    /\ status_label = "monitoring"

\* what a step of the thread's life leaves alone
rest_vars == <<program_vars, call_vars, status_label>>

\* worker.py:132-136  stop(), called once by quit_app from the UI thread
Stop ==
    /\ ~stop_event
    /\ stop_event' = TRUE
    /\ pending_set' = (loop = "running" /\ async_stop_event # "None")
    /\ raised' = "None"
    /\ UNCHANGED <<loop, async_stop_event, run_pc, initialization, handler_registered,
                   periodic_pc, cycles, failures, commanded, rest_vars>>

\* worker.py:136  the loop runs the callback that call_soon_threadsafe handed it
SetAsyncStopEvent ==
    /\ pending_set
    /\ loop = "running"
    /\ async_stop_event' = "set"
    /\ pending_set' = FALSE
    /\ raised' = "None"
    /\ UNCHANGED <<stop_event, loop, run_pc, initialization, handler_registered,
                   periodic_pc, cycles, failures, commanded, rest_vars>>

\* worker.py:364-365  asyncio.new_event_loop()
NewEventLoop ==
    /\ run_pc = "start"
    /\ loop' = "made"
    /\ run_pc' = "loop_made"
    /\ raised' = "None"
    /\ UNCHANGED <<stop_event, async_stop_event, pending_set, initialization,
                   handler_registered, periodic_pc, cycles, failures, commanded, rest_vars>>

\* worker.py:400  run_until_complete(main_logic()): the loop runs
RunUntilComplete ==
    /\ run_pc = "loop_made"
    /\ loop' = "running"
    /\ run_pc' = "main_logic"
    /\ raised' = "None"
    /\ UNCHANGED <<stop_event, async_stop_event, pending_set, initialization,
                   handler_registered, periodic_pc, cycles, failures, commanded, rest_vars>>

\* worker.py:368-373  main_logic makes its stop event and awaits initialize()
CreateStopEvent ==
    /\ run_pc = "main_logic"
    /\ async_stop_event' = "clear"
    /\ run_pc' = "initialize"
    /\ raised' = "None"
    /\ UNCHANGED <<stop_event, loop, pending_set, initialization, handler_registered,
                   periodic_pc, cycles, failures, commanded, rest_vars>>

\* worker.py:378-390  initialize() has returned: the handler is registered,
\* the periodic task is created and main_logic awaits the stop event
InitializeOk ==
    /\ run_pc = "initialize"
    /\ initialization' = "ok"
    /\ handler_registered' = TRUE
    /\ periodic_pc' = "top"
    /\ run_pc' = "wait"
    /\ raised' = "None"
    /\ UNCHANGED <<stop_event, loop, async_stop_event, pending_set, cycles, failures,
                   commanded, rest_vars>>

\* media_controller.py:20-22, worker.py:374-376, 402-415  initialize() raises:
\* main_logic logs and returns, run() closes the loop and returns
InitializeFails ==
    /\ run_pc = "initialize"
    /\ initialization' = "failed"
    /\ loop' = "None"
    /\ run_pc' = "returned"
    /\ raised' = "None"
    /\ UNCHANGED <<stop_event, async_stop_event, pending_set, handler_registered,
                   periodic_pc, cycles, failures, commanded, rest_vars>>

\* worker.py:390-398, 402-415  the stop event is set: the handler is
\* unregistered, the periodic task is cancelled at the await it is suspended
\* in, run() closes the loop and returns
Unwind ==
    /\ run_pc = "wait"
    /\ async_stop_event = "set"
    /\ handler_registered' = FALSE
    /\ periodic_pc' = "done"
    /\ loop' = "None"
    /\ run_pc' = "returned"
    /\ raised' = "None"
    /\ UNCHANGED <<stop_event, async_stop_event, pending_set, initialization, cycles,
                   failures, commanded, rest_vars>>

\* a step of the periodic task from one place to another
PeriodicStep(from, to, raises) ==
    /\ periodic_pc = from
    /\ periodic_pc' = to
    /\ raised' = IF raises THEN from ELSE "None"
    /\ IF raises
       THEN failures < MaxFailures /\ failures' = failures + 1
       ELSE UNCHANGED failures
    /\ UNCHANGED <<stop_event, loop, async_stop_event, pending_set, run_pc,
                   initialization, handler_registered, rest_vars>>

\* worker.py:314  the while test: the task ends or a cycle starts
LoopTop ==
    /\ PeriodicStep("top", IF stop_event THEN "done" ELSE "queue", FALSE)
    /\ cycles' = IF stop_event \/ cycles = MaxCycles THEN cycles ELSE cycles + 1
    /\ UNCHANGED commanded

\* worker.py:148-182  the worker queue is drained; a control_app message
\* sends a command
HandleWorkerQueue ==
    /\ PeriodicStep("queue", "enrich", FALSE)
    /\ \E sends \in BOOLEAN : commanded' = (commanded \/ sends)
    /\ UNCHANGED cycles

\* worker.py:183-184  an exception in the drain is passed over and the cycle
\* goes on
HandleWorkerQueueRaises ==
    /\ PeriodicStep("queue", "enrich", TRUE)
    /\ UNCHANGED <<cycles, commanded>>

\* worker.py:269-308  the cycle's enrichment run
UpdateMediaSessionsList ==
    /\ PeriodicStep("enrich", "audio", FALSE)
    /\ UNCHANGED <<cycles, commanded>>

\* worker.py:309-310  an exception in the enrichment run is logged and the
\* cycle goes on
UpdateMediaSessionsListRaises ==
    /\ PeriodicStep("enrich", "audio", TRUE)
    /\ UNCHANGED <<cycles, commanded>>

\* worker.py:321-350  the sample, the cache, update_audio_apps and the
\* detection step, which may send a command
SampleAndCheck ==
    /\ PeriodicStep("audio", "sleep1", FALSE)
    /\ \E sends \in BOOLEAN : commanded' = (commanded \/ sends)
    /\ UNCHANGED cycles

\* worker.py:354-356  an exception there reaches the handler of the loop
SampleAndCheckRaises ==
    /\ PeriodicStep("audio", "sleep5", TRUE)
    /\ UNCHANGED <<cycles, commanded>>

\* worker.py:350  asyncio.sleep(1) is over
SleepOne ==
    /\ PeriodicStep("sleep1", "top", FALSE)
    /\ UNCHANGED <<cycles, commanded>>

\* worker.py:356  asyncio.sleep(5) is over
SleepFive ==
    /\ PeriodicStep("sleep5", "top", FALSE)
    /\ UNCHANGED <<cycles, commanded>>

\* the steps of run() and main_logic
RunNext ==
    \/ NewEventLoop
    \/ RunUntilComplete
    \/ CreateStopEvent
    \/ InitializeOk
    \/ InitializeFails
    \/ Unwind

\* the steps of the periodic task
PeriodicNext ==
    \/ LoopTop
    \/ HandleWorkerQueue
    \/ HandleWorkerQueueRaises
    \/ UpdateMediaSessionsList
    \/ UpdateMediaSessionsListRaises
    \/ SampleAndCheck
    \/ SampleAndCheckRaises
    \/ SleepOne
    \/ SleepFive

NextLife ==
    \/ Stop
    \/ SetAsyncStopEvent
    \/ RunNext
    \/ PeriodicNext

\* the thread is scheduled, and the loop runs the callbacks and the tasks
\* that are ready, each in its turn
SpecLife ==
    /\ InitLife /\ [][NextLife]_vars
    /\ WF_vars(RunNext) /\ WF_vars(PeriodicNext) /\ WF_vars(SetAsyncStopEvent)

(***************************************************************************)
(* media_controller.py and audio_monitor.py: one call of get_media_sessions,*)
(* control_media or get_audio_playing_apps, with the failures the system   *)
(* can answer with                                                         *)
(***************************************************************************)
\* the lists of at most MaxSessions elements of S
ListsOf(S) == UNION {[1..k -> S] : k \in 0..MaxSessions}

\* media_controller.py:66-70  playback_status as text; 2 stands for the
\* values that are none of the three
StatusStr(status) ==
    CASE status = 4 -> "Playing"
      [] status = 5 -> "Paused"
      [] status = 3 -> "Stopped"
      [] OTHER -> "Unknown"

\* a session as the media manager hands it out: the query of its properties
\* answers, raises, or answers with nothing
ManagerSessions ==
    [source : Sources, query : {"ok", "raises", "nothing"}, playback_status : {2, 4, 5}]

\* the calls of get_media_sessions: the manager is initialised or not, and
\* the enumeration hands out `yielded` sessions and then ends or raises
MediaSessionsCalls ==
    {[function |-> "get_media_sessions", manager |-> m, sessions |-> l,
      yielded |-> y, enumeration |-> e] :
        m \in BOOLEAN, l \in ListsOf(ManagerSessions), y \in 0..MaxSessions,
        e \in {"ok", "raises"}}

\* a loop over the sessions without the try of media_controller.py:60: the
\* first failing query ends it
GatherUntilFailure(session_list, i) ==
    LET failing == {j \in i..Len(session_list) : session_list[j].query = "raises"}
        last == IF failing = {} THEN Len(session_list)
                ELSE (CHOOSE j \in failing : \A k \in failing : j <= k) - 1
        answered == SelectSeq(SubSeq(session_list, i, last), LAMBDA x : x.query = "ok")
    IN [j \in DOMAIN answered |->
            [source |-> answered[j].source,
             status |-> StatusStr(answered[j].playback_status)]]

\* media_controller.py:59-82  the loop over the sessions handed out
RECURSIVE Gather(_, _)
Gather(session_list, i) ==
    IF i > Len(session_list) THEN <<>>
    ELSE IF session_list[i].query = "ok"
         THEN <<[source |-> session_list[i].source,
                 status |-> StatusStr(session_list[i].playback_status)]>>
              \o Gather(session_list, i + 1)
         ELSE Gather(session_list, i + 1)

\* media_controller.py:44-88  get_media_sessions
GetMediaSessionsCall(c) ==
    IF ~c.manager
    THEN [returned |-> TRUE, raised |-> FALSE, value |-> <<>>]
    ELSE [returned |-> TRUE, raised |-> FALSE,
          value |-> Gather(SubSeq(c.sessions, 1, c.yielded), 1)]

\* a session as control_media finds it: sending it a command answers or raises
ControlledSessions == [source : Sources, command : {"ok", "raises"}]

\* the calls of control_media; "Other" is a source id no session has, and
\* "toggle" a command that is neither play nor pause
ControlMediaCalls ==
    {[function |-> "control_media", manager |-> m, enumeration |-> e, sessions |-> l,
      app_id |-> a, command |-> c] :
        m \in BOOLEAN, e \in {"ok", "raises"}, l \in ListsOf(ControlledSessions),
        a \in Sources \cup {"Other"}, c \in {"play", "pause", "toggle"}}

\* a search that takes the first session whatever its source id is
FirstSession(session_list, app_id) == IF session_list = <<>> THEN 0 ELSE 1

\* media_controller.py:103-107  the first session whose source id is app_id,
\* 0 when there is none
TargetSession(session_list, app_id) ==
    LET matching == {i \in DOMAIN session_list : session_list[i].source = app_id}
    IN IF matching = {} THEN 0
       ELSE CHOOSE i \in matching : \A j \in matching : i <= j

\* media_controller.py:90-121  control_media: the commands it sends, each
\* with the place of the session it is sent to
ControlMediaCall(c) ==
    LET target_session == TargetSession(c.sessions, c.app_id)
    IN [returned |-> TRUE, raised |-> FALSE,
        sent |-> IF ~c.manager \/ c.enumeration = "raises" \/ target_session = 0
                    \/ c.command \notin {"play", "pause"}
                 THEN <<>>
                 ELSE <<[session |-> target_session, command |-> c.command]>>]

\* audio_monitor.py:68  the peak above which a session plays, in hundredths
PeakThreshold == 1

\* a test that counts the threshold itself as playing
IsPlayingAtThreshold(peak_value) == peak_value >= PeakThreshold

\* audio_monitor.py:68  is_playing
IsPlaying(peak_value) == peak_value > PeakThreshold

\* an audio session as the system hands it out: it has no process, its
\* process lives, its process is gone when it is asked for (NoSuchProcess),
\* or a query of it fails otherwise; peak_value is in hundredths
AudioSessions ==
    [pid : Pids, process : {"none", "alive", "vanished", "failing"}, peak_value : 0..2]

\* the calls of get_audio_playing_apps
AudioAppsCalls ==
    {[function |-> "get_audio_playing_apps", enumeration |-> e, sessions |-> l] :
        e \in {"ok", "raises"}, l \in ListsOf(AudioSessions)}

\* audio_monitor.py:52-83  the loop over the audio sessions
RECURSIVE AppsOf(_, _)
AppsOf(session_list, i) ==
    IF i > Len(session_list) THEN <<>>
    ELSE IF session_list[i].process = "alive"
         THEN <<[pid |-> session_list[i].pid,
                 process_name |-> ProcessName(session_list[i].pid),
                 is_playing |-> IsPlaying(session_list[i].peak_value),
                 peak_value |-> session_list[i].peak_value]>>
              \o AppsOf(session_list, i + 1)
         ELSE AppsOf(session_list, i + 1)

\* audio_monitor.py:41-86  get_audio_playing_apps.  The read of session.Process
\* at line 53, ahead of the try, is taken to answer: a session it cannot
\* answer for is one without a process
GetAudioPlayingAppsCall(c) ==
    [returned |-> TRUE, raised |-> FALSE,
     value |-> IF c.enumeration = "raises" THEN <<>> ELSE AppsOf(c.sessions, 1)]

\* one of the three functions is called
InitCalls ==
    /\ ProgramIdle
    /\ call \in {c \in MediaSessionsCalls : c.yielded <= Len(c.sessions)
                                            /\ (c.enumeration = "ok" => c.yielded = Len(c.sessions))}
                \cup ControlMediaCalls \cup AudioAppsCalls
    /\ result = NotReturned

GetMediaSessionsReturns ==
    /\ call.function = "get_media_sessions"
    /\ result = NotReturned
    /\ result' = GetMediaSessionsCall(call)
    /\ UNCHANGED <<call, program_vars, life_vars>>

ControlMediaReturns ==
    /\ call.function = "control_media"
    /\ result = NotReturned
    /\ result' = ControlMediaCall(call)
    /\ UNCHANGED <<call, program_vars, life_vars>>

GetAudioPlayingAppsReturns ==
    /\ call.function = "get_audio_playing_apps"
    /\ result = NotReturned
    /\ result' = GetAudioPlayingAppsCall(call)
    /\ UNCHANGED <<call, program_vars, life_vars>>

NextCalls ==
    \/ GetMediaSessionsReturns
    \/ ControlMediaReturns
    \/ GetAudioPlayingAppsReturns

SpecCalls == InitCalls /\ [][NextCalls]_vars

(***************************************************************************)
(* app.py: the settings window opened from the tray menu, and what a save  *)
(* does to the configuration                                               *)
(***************************************************************************)
\* settings_window.py:241  the parameters of SettingsWindow.set_initial_values,
\* none of which has a default
SetInitialValuesParameters ==
    {"debug", "top", "retention", "whitelist", "all_audio_apps", "ignore_manual_pause"}

\* app.py:528-534  the keyword arguments show_settings_window passes
ShowSettingsWindowPasses ==
    {"debug", "top", "retention", "whitelist", "all_audio_apps"}

\* ConfigManager.set for a two-part key "section.key"
ConfigSet(cfg, section, key, value) ==
    LET old == Get(cfg, section, EmptyDict)
        new == [k \in DOMAIN old \cup {key} |-> IF k = key THEN value ELSE old[k]]
    IN [s \in DOMAIN cfg \cup {section} |-> IF s = section THEN new ELSE cfg[s]]

\* ConfigManager.save_config: the file holds the configuration as it stands
SaveConfig(cfg) == cfg

\* the whitelists the user sets out to save: audiodg.exe in each mode of
\* the dialog
SettingsChoices == {DialogWhitelist(label) : label \in DOMAIN MODE_MAP}

\* the choices of the user for the check box of general.ignore_manual_pause
CheckBoxChoices == {TRUE, FALSE}

\* a file that enables general.ignore_manual_pause
IgnoreManualPauseFile ==
    [general |-> [ignore_manual_pause |-> TRUE],
     audio |-> [whitelist |-> DialogWhitelist("zhengchang")]]

\* the program runs and the user is about to choose "settings" in the tray
\* menu, meaning to save a whitelist and a value of the check box
InitConfig ==
    /\ ProgramInit
    /\ stored_config \in {NoFile, IgnoreManualPauseFile}
    /\ Started
    /\ call \in {[function |-> "show_settings_window", whitelist |-> w,
                  ignore_manual_pause |-> b] :
                     w \in SettingsChoices, b \in CheckBoxChoices}
    /\ result = NotReturned

\* app.py:518-557  AudioFocusApp.show_settings_window.  The call of
\* set_initial_values raises TypeError when a parameter is not passed, and
\* the handler ends there; otherwise the window is waited for and its
\* values are written to the configuration manager, saved, and
\* config_updated is put
ShowSettingsWindow ==
    /\ call.function = "show_settings_window"
    /\ result = NotReturned
    /\ IF SetInitialValuesParameters \subseteq ShowSettingsWindowPasses
       THEN /\ Len(worker_queue) < MaxWorkerQueue
            /\ config' = ConfigSet(config, "audio", "whitelist", GetValues(call.whitelist))
            /\ stored_config' = SaveConfig(config')
            /\ worker_queue' = Append(worker_queue, [type |-> "config_updated"])
            /\ result' = [returned |-> TRUE, raised |-> "None", was_saved |-> TRUE]
       ELSE /\ result' = [returned |-> TRUE, raised |-> "TypeError", was_saved |-> FALSE]
            /\ UNCHANGED <<config_vars, worker_queue>>
    /\ UNCHANGED <<call, machine_vars, events, engine_vars, ui_queue, task_vars,
                   enrichment_tasks, ui_vars, sent_commands, streak_age, toggle_status,
                   life_vars, cache_vars>>

\* worker.py:167-169  the worker takes config_updated from its queue and
\* reloads the configuration from the file
HandleConfigUpdated ==
    /\ UNCHANGED other_vars
    /\ pc = "queue"
    /\ worker_queue # <<>>
    /\ Head(worker_queue).type = "config_updated"
    /\ worker_queue' = Tail(worker_queue)
    /\ config' = LoadConfig(stored_config)
    /\ sent_commands' = <<>>
    /\ UNCHANGED <<stored_config, machine_vars, events, engine_vars, ui_queue, task_vars,
                   enrichment_tasks, ui_vars, streak_age, toggle_status>>

\* the running program with the settings handler; config_updated is put by
\* nothing else than the handler
NextConfig ==
    \/ OnAppSelect("Spotify.exe")
    \/ ProcessUiQueue
    \/ HandleStateUpdate
    \/ EnrichBegin
    \/ FinishCycle
    \/ Sleep
    \/ ShowSettingsWindow

SpecConfig == InitConfig /\ [][NextConfig]_vars

(***************************************************************************)
(* worker.py:321-345, app.py:491-492: the sample of a cycle, the caches    *)
(* it is written to and the list the window receives.  Lists and dicts are *)
(* objects: a list is known by the cycle that made it, a dict by that      *)
(* cycle and its pid.  What a cycle does to the sessions and the target is *)
(* left to the actions above                                               *)
(***************************************************************************)
\* get_icon_for_pid returned None
NoIcon == 0

\* audio_monitor.py:46-80  the list a call of get_audio_playing_apps makes in
\* cycle n: new dicts, none with an icon
FreshApps(sample, n) ==
    [i \in DOMAIN sample |->
        [pid |-> sample[i].pid,
         process_name |-> sample[i].process_name,
         is_playing |-> sample[i].is_playing,
         made |-> n,
         icon |-> NoIcon]]

\* a cache that keeps the dict it already has for a process name
RECURSIVE CacheAfterKeepsKnown(_, _, _, _)
CacheAfterKeepsKnown(cache, audio_apps, i, extracted) ==
    IF i > Len(audio_apps) THEN [cache |-> cache, audio_apps |-> audio_apps]
    ELSE LET app == audio_apps[i]
         IN  IF app.process_name \in DOMAIN cache
             THEN CacheAfterKeepsKnown(cache, audio_apps, i + 1, extracted)
             ELSE CacheAfterKeepsKnown(
                      [k \in DOMAIN cache \cup {app.process_name} |->
                          IF k = app.process_name THEN app ELSE cache[k]],
                      audio_apps, i + 1, extracted)

\* worker.py:325-340  the loop over the sample from its i-th dict on: the
\* icon is restored from the cache or extracted (extracted: the pids whose
\* icon get_icon_for_pid can give), and the dict is stored under its name
RECURSIVE CacheAfter(_, _, _, _)
CacheAfter(cache, audio_apps, i, extracted) ==
    IF i > Len(audio_apps) THEN [cache |-> cache, audio_apps |-> audio_apps]
    ELSE LET app == audio_apps[i]
         IN  IF app.process_name = ""
             THEN CacheAfter(cache, audio_apps, i + 1, extracted)
             ELSE LET restored ==
                          IF app.process_name \in DOMAIN cache
                          THEN cache[app.process_name].icon
                          ELSE app.icon
                      icon == IF restored # NoIcon THEN restored
                              ELSE IF app.pid \in extracted THEN app.pid ELSE NoIcon
                      with_icon == [app EXCEPT !.icon = icon]
                  IN  CacheAfter(
                          [k \in DOMAIN cache \cup {app.process_name} |->
                              IF k = app.process_name THEN with_icon ELSE cache[k]],
                          [audio_apps EXCEPT ![i] = with_icon], i + 1, extracted)

\* the program just started; the cycles are counted from here
InitCache ==
    /\ ProgramIdle
    /\ call = NoCall
    /\ result = NotReturned

\* worker.py:321-345  a cycle samples the audio sessions, brings the caches
\* up to date under the lock and puts the list on the window's queue
SampleAndCache ==
    /\ cycles < MaxCycles
    /\ Len(ui_queue) < MaxUiQueue
    /\ \E sample \in Samples, extracted \in SUBSET Pids :
         LET n == cycles + 1
             after == CacheAfter(all_known_apps_cache, FreshApps(sample, n), 1, extracted)
         IN  /\ all_known_apps_cache' = after.cache
             /\ latest_audio_apps_with_icons' = after.audio_apps
             /\ latest_list' = n
             /\ ui_queue' = Append(ui_queue, [type |-> "update_audio_apps",
                                              data |-> [list |-> n, apps |-> after.audio_apps]])
             /\ cycles' = n
    /\ UNCHANGED <<machine_vars, events, config_vars, target_app_info, was_paused_by_app,
                   was_manually_paused, last_known_state, reported_state, delay_timers, worker_queue,
                   task_vars, enrichment_tasks, ui_vars, sent_commands, streak_age,
                   toggle_status, call_vars, current_audio_apps>>
    /\ UNCHANGED <<stop_event, loop, async_stop_event, pending_set, run_pc, initialization,
                   handler_registered, periodic_pc, failures, raised, commanded,
                   status_label>>

\* app.py:464-497  process_ui_queue with update_audio_apps pending: the
\* window keeps the data of the last message
ProcessUiQueueAudioApps ==
    /\ ui_queue # <<>>
    /\ \A i \in DOMAIN ui_queue : ui_queue[i].type = "update_audio_apps"
    /\ current_audio_apps' = ui_queue[Len(ui_queue)].data
    /\ ui_queue' = <<>>
    /\ UNCHANGED <<machine_vars, events, config_vars, engine_vars, worker_queue,
                   task_vars, enrichment_tasks, ui_vars, sent_commands, streak_age,
                   toggle_status, call_vars, life_vars, all_known_apps_cache, latest_list>>

NextCache ==
    \/ SampleAndCache
    \/ ProcessUiQueueAudioApps

SpecCache == InitCache /\ [][NextCache]_vars

(***************************************************************************)
(* The same program some time later: the user has chosen Spotify as the    *)
(* target, the worker has handled the state_update and a cycle has ended   *)
(***************************************************************************)
\* the snapshot of two playing sessions whose pids were not resolved
BothPlaying == [s \in Sources |-> [pid |-> NoPid, status |-> "Playing"]]

\* the state reached from the start by a cycle that sampled a silent
\* audiodg.exe, the window's update of its list, the choice of Spotify and
\* the worker's handling of the state_update
InitTarget ==
    /\ sessions = [s \in Sources |-> "Playing"]
    /\ events = 0
    /\ stored_config = NoFile
    /\ config = LoadConfig(stored_config)
    /\ target_app_info = [source |-> "Spotify.exe", pid |-> NoPid]
    /\ was_paused_by_app = FALSE
    /\ was_manually_paused = FALSE
    /\ last_known_state = BothPlaying
    /\ reported_state = BothPlaying
    /\ latest_audio_apps_with_icons =
          <<[pid |-> 2, process_name |-> "audiodg.exe", is_playing |-> FALSE]>>
    /\ delay_timers = EmptyDict
    /\ worker_queue = <<>>
    /\ ui_queue = <<>>
    /\ pc = "queue"
    /\ media_sessions = EmptyDict
    /\ enrichment_tasks = 0
    /\ ui_target_app_info = [source |-> "Spotify.exe", pid |-> NoPid]
    /\ ui_was_paused_by_app = FALSE
    /\ entries = BothPlaying
    /\ target_app_source = "Spotify.exe"
    /\ app_list_window = TRUE
    /\ sent_commands = <<>>
    /\ stopped_by = [s \in Sources |-> "external"]
    /\ streak_age = EmptyDict
    /\ toggle_status = <<>>
    /\ CachesInit
    /\ Started
    /\ call = NoCall
    /\ result = NotReturned

SpecTarget == InitTarget /\ [][NextRefresh]_vars

(***************************************************************************)
(* worker.py:19-104  get_icon_for_pid on its own: the calls it makes, any  *)
(* of which may raise, the handles it holds and the icon cache             *)
(***************************************************************************)
\* worker.py:19  LRUCache(maxsize=128)
IconCacheMaxSize == 128

\* where a call of get_icon_for_pid stops going straight on: a call that
\* raises, a test that makes it return early, or nowhere
IconOutcomes ==
    {"process", "no_exe", "count", "count_zero", "extract", "icon_info", "get_object",
     "get_dc", "compatible_dc", "create_bitmap", "compatible_bitmap", "draw", "none"}

\* the calls inside the outer try, in the order they are made
IconStages ==
    <<"count", "extract", "icon_info", "get_object", "get_dc", "compatible_dc",
      "create_bitmap", "compatible_bitmap", "draw">>

\* the place of a call in that order; a call that does not raise comes
\* after all of them
IconStage(outcome) ==
    IF \E k \in DOMAIN IconStages : IconStages[k] = outcome
    THEN CHOOSE k \in DOMAIN IconStages : IconStages[k] = outcome
    ELSE Len(IconStages) + 1

\* the icon cache as the number of its entries and whether exe_path is one
IconCaches ==
    {[size |-> n, has |-> h] : n \in {0, 1, IconCacheMaxSize - 1, IconCacheMaxSize},
                               h \in BOOLEAN} \ {[size |-> 0, has |-> TRUE]}

\* cachetools.LRUCache.__setitem__: a new key in a full cache evicts the
\* least recently used entry
IconCachePut(cache) ==
    IF cache.has THEN cache
    ELSE [size |-> IF cache.size < IconCacheMaxSize THEN cache.size + 1 ELSE cache.size,
          has |-> TRUE]

\* the calls of get_icon_for_pid: the outcome, whether ExtractIconEx gives
\* a large and a small icon, and the cache at the time
IconCalls ==
    [function : {"get_icon_for_pid"}, outcome : IconOutcomes,
     large : BOOLEAN, small : BOOLEAN, cache : IconCaches]

\* worker.py:22-104  get_icon_for_pid: the value it returns, the handles it
\* has acquired and not released when it returns, and the cache it leaves
GetIconForPidCall(c) ==
    LET stage == IconStage(c.outcome)
        passed(name) == stage > IconStage(name)
        no_hicon == ~c.large /\ ~c.small
        \* the body of the outer try ends at the first of: a call that raises,
        \* num_icons == 0, no icon handle, the return of the image
        count_zero == c.outcome = "count_zero"
        extracted == passed("extract") /\ ~count_zero
        has_hicon == extracted /\ ~no_hicon
        acquired ==
            (IF extracted /\ c.large THEN {"large"} ELSE {})
            \cup (IF extracted /\ c.small THEN {"small"} ELSE {})
            \cup (IF has_hicon /\ passed("icon_info") THEN {"hbmColor", "hbmMask"} ELSE {})
            \cup (IF has_hicon /\ passed("get_dc") THEN {"hdc"} ELSE {})
            \cup (IF has_hicon /\ passed("compatible_dc") THEN {"mem_dc"} ELSE {})
            \cup (IF has_hicon /\ passed("compatible_bitmap") THEN {"bitmap"} ELSE {})
        \* worker.py:99-104  the outer finally
        outer == {"large", "small"}
        \* worker.py:89-91  the finally entered once GetIconInfo has returned
        middle == IF has_hicon /\ passed("icon_info") THEN {"hbmColor", "hbmMask"} ELSE {}
        \* worker.py:83-87  the finally entered once CreateBitmap has returned
        inner == IF has_hicon /\ passed("create_bitmap")
                 THEN {"bitmap", "mem_dc", "hdc"} ELSE {}
        success == has_hicon /\ c.outcome = "none"
    IN  IF c.outcome \in {"process", "no_exe"}
        THEN [returned |-> TRUE, value |-> "None", held |-> {}, cache |-> c.cache]
        ELSE IF c.cache.has
        THEN [returned |-> TRUE, value |-> "cached", held |-> {}, cache |-> c.cache]
        ELSE [returned |-> TRUE,
              value |-> IF success THEN "image" ELSE "None",
              held |-> acquired \ (outer \cup middle \cup inner),
              cache |-> IconCachePut(c.cache)]

\* get_icon_for_pid is called
InitIcon ==
    /\ ProgramIdle
    /\ call \in IconCalls
    /\ result = NotReturned

GetIconForPidReturns ==
    /\ call.function = "get_icon_for_pid"
    /\ result = NotReturned
    /\ result' = GetIconForPidCall(call)
    /\ UNCHANGED <<call, program_vars, life_vars>>

NextIcon == GetIconForPidReturns

SpecIcon == InitIcon /\ [][NextIcon]_vars

(***************************************************************************)
(* The program with a media manager whose enumeration can fail: the        *)
(* failures get_media_sessions swallows (media_controller.py:56-85)        *)
(***************************************************************************)
\* media_controller.py:56-88  what get_media_sessions returns when the
\* queries of the sessions in `answered` answer and the others raise (all
\* of them when manager.get_sessions() itself raises)
GetMediaSessionsOf(real, answered) ==
    [s \in {x \in DOMAIN real : real[x] # "Absent"} \cap answered |-> real[s]]

\* worker.py:316-319 with media_controller.py:56-85  the cycle's enrichment
\* calls get_media_sessions; the enumeration succeeds, or an exception is
\* raised and caught inside the call, which then returns fewer sessions
EnrichBeginMayFail ==
    /\ pc = "queue"
    /\ worker_queue = <<>>
    /\ \E answered \in SUBSET Sources :
         /\ media_sessions' = GetMediaSessionsOf(sessions, answered)
         /\ raised' = IF media_sessions' = GetMediaSessions(sessions)
                      THEN "None" ELSE "get_media_sessions"
    /\ pc' = "enrich_wait"
    /\ sent_commands' = <<>>
    /\ UNCHANGED <<machine_vars, events, enrichment_tasks, config_vars, engine_vars,
                   worker_queue, ui_queue, ui_vars, streak_age, toggle_status,
                   call_vars, cache_vars>>
    /\ UNCHANGED <<stop_event, loop, async_stop_event, pending_set, run_pc, initialization,
                   handler_registered, periodic_pc, cycles, failures, commanded,
                   status_label>>

\* the program with Spotify chosen, its sessions closing and pausing from
\* outside, and the enumerations failing or not
NextFaults ==
    \/ \E s \in Sources : ExternalPause(s)
    \/ \E s \in Sources : SessionClosed(s)
    \/ ProcessUiQueue
    \/ HandleStateUpdate
    \/ EnrichBeginMayFail
    \/ FinishCycle
    \/ Sleep

SpecFaults == InitTarget /\ [][NextFaults]_vars

(***************************************************************************)
(* The worker's loop and the UI's poll left to themselves: Spotify.exe is  *)
(* chosen, nothing happens outside the program, and both go on running     *)
(***************************************************************************)
\* worker.py:314-350  the steps of the periodic loop, which runs for as long
\* as stop_event is not set
CycleNext ==
    \/ HandleStateUpdate
    \/ EnrichBegin
    \/ FinishCycle
    \/ Sleep

NextResume ==
    \/ CycleNext
    \/ ProcessUiQueue

\* the loop goes from one cycle to the next (worker.py:314, 350) and
\* process_ui_queue schedules itself again every 100 ms (app.py:497)
SpecResume ==
    /\ InitTarget
    /\ [][NextResume]_vars
    /\ WF_vars(CycleNext)
    /\ WF_vars(ProcessUiQueue)

(***************************************************************************)
(* Vocabulary of the properties                                            *)
(***************************************************************************)
\* a step in which a periodic cycle samples the audio and runs detection
DetectionStep == pc = "enrich_wait" /\ pc' = "sleep"

\* the whitelist a detection cycle reads
Whitelist == ConfigGet(config, "audio", "whitelist", EmptyDict)

\* the message put last on a queue
Last(q) == q[Len(q)]

\* the messages a step puts on the UI queue
Puts == SubSeq(ui_queue', Len(ui_queue) + 1, Len(ui_queue'))

PutsOfType(type) == {k \in DOMAIN Puts : Puts[k].type = type}

PutsPausedFlag(value) ==
    \E k \in PutsOfType("set_paused_flag") : Puts[k].data = value

\* the control_media call of a step
Sends(media_command) ==
    sent_commands' = <<[source |-> target_app_info.source, command |-> media_command]>>

\* a target is set and the snapshot the cycle has just built holds its source id
TargetInLatestSnapshot ==
    /\ target_app_info # NoneTarget
    /\ target_app_info.source \in DOMAIN last_known_state'

TargetPlayingInLatestSnapshot ==
    /\ TargetInLatestSnapshot
    /\ last_known_state'[target_app_info.source].status = "Playing"

\* the records of the cycle's sample that play and are not the target's process
OtherPlaying(sample, target) ==
    {i \in DOMAIN sample : sample[i].is_playing /\ sample[i].pid # target.pid}

\* the verdict of the cycle's scan
Interfering ==
    ScanForInterference(latest_audio_apps_with_icons', 1, target_app_info.pid, Whitelist,
        CleanDelayTimers(delay_timers, latest_audio_apps_with_icons')).is_interfering

(***************************************************************************)
(* C1  In a detection cycle with a target whose source id is in the latest *)
(* snapshot with status Playing, was_paused_by_app false and some other    *)
(* process (a pid that is not the target's) playing without a whitelist    *)
(* entry, the engine sends pause to the target's source id and puts        *)
(* set_paused_flag true on the UI queue in that cycle.                     *)
(***************************************************************************)
C1_PauseOnNormalInterference ==
    [][(/\ DetectionStep
        /\ TargetPlayingInLatestSnapshot
        /\ ~was_paused_by_app
        /\ \E i \in OtherPlaying(latest_audio_apps_with_icons', target_app_info) :
              latest_audio_apps_with_icons'[i].process_name \notin DOMAIN Whitelist)
       => (Sends("pause") /\ PutsPausedFlag(TRUE))]_vars

\* a cycle has just paused the target because of a process without an entry
C1_Witness ==
    /\ pc = "sleep"
    /\ target_app_info # NoneTarget
    /\ sent_commands = <<[source |-> target_app_info.source, command |-> "pause"]>>
    /\ sessions[target_app_info.source] = "Paused"
    /\ ui_queue # <<>>
    /\ Last(ui_queue).type = "set_paused_flag" /\ Last(ui_queue).data = TRUE
    /\ \E i \in OtherPlaying(latest_audio_apps_with_icons, target_app_info) :
          latest_audio_apps_with_icons[i].process_name \notin DOMAIN Whitelist

(***************************************************************************)
(* C2  In a detection cycle where the target's source id is in the latest  *)
(* snapshot, was_paused_by_app is true, the scan finds no interfering      *)
(* process, and it is not the case that the engine reads                   *)
(* ignore_manual_pause as enabled while was_manually_paused is set, the    *)
(* engine sends play to the target's source id and puts set_paused_flag    *)
(* false on the UI queue.                                                  *)
(***************************************************************************)
C2_ResumeWhenInterferenceClears ==
    [][(/\ DetectionStep
        /\ TargetInLatestSnapshot
        /\ was_paused_by_app
        /\ ~Interfering
        /\ ~(/\ ConfigGet(config, "general", "ignore_manual_pause", FALSE)
              /\ was_manually_paused'))
       => (Sends("play") /\ PutsPausedFlag(FALSE))]_vars

\* a cycle has just resumed the target it had paused
C2_Witness ==
    /\ pc = "sleep"
    /\ target_app_info # NoneTarget
    /\ was_paused_by_app
    /\ sent_commands = <<[source |-> target_app_info.source, command |-> "play"]>>
    /\ sessions[target_app_info.source] = "Playing"
    /\ stopped_by[target_app_info.source] = "engine"
    /\ ui_queue # <<>>
    /\ Last(ui_queue).type = "set_paused_flag" /\ Last(ui_queue).data = FALSE
    /\ OtherPlaying(latest_audio_apps_with_icons, target_app_info) = {}

(***************************************************************************)
(* C6  In a detection cycle where a target is set and its source id is     *)
(* absent from the latest snapshot, the engine puts exactly one            *)
(* target_closed on the UI queue and sends no command, with or without     *)
(* interference and whatever was_paused_by_app is.                         *)
(***************************************************************************)
C6_TargetClosedOnceAndNoCommand ==
    [][(/\ DetectionStep
        /\ target_app_info # NoneTarget
        /\ target_app_info.source \notin DOMAIN last_known_state')
       => (/\ Cardinality(PutsOfType("target_closed")) = 1
           /\ sent_commands' = <<>>
           /\ sessions' = sessions)]_vars

\* a cycle has just reported the target closed while another process plays
\* and the target is held paused by the engine
C6_Witness ==
    /\ pc = "sleep"
    /\ target_app_info # NoneTarget
    /\ target_app_info.source \notin DOMAIN last_known_state
    /\ was_paused_by_app
    /\ ui_queue # <<>>
    /\ Last(ui_queue).type = "target_closed"
    /\ sent_commands = <<>>
    /\ OtherPlaying(latest_audio_apps_with_icons, target_app_info) # {}

(***************************************************************************)
(* C3  Of the processes that play and are not the target: one in normal    *)
(* mode (or without an entry) counts as interference in the very cycle it  *)
(* is sampled playing, so a Playing target not yet paused by the engine is *)
(* paused in that cycle; one whose stored mode is ignore (the value the    *)
(* dialog writes and the defaults carry) never causes a pause.             *)
(***************************************************************************)
C3_ModesDecideInterference ==
    [][(/\ DetectionStep
        /\ TargetPlayingInLatestSnapshot
        /\ ~was_paused_by_app)
       => LET sample == latest_audio_apps_with_icons'
              others == OtherPlaying(sample, target_app_info)
          IN  /\ (\E i \in others : ModeOf(Whitelist, sample[i].process_name) = "normal")
                    => Sends("pause")
              /\ (\A i \in others : ModeOf(Whitelist, sample[i].process_name) = "ignore")
                    => sent_commands' = <<>>]_vars

(***************************************************************************)
(* C4  While every other playing process has a stored entry of mode delay  *)
(* and has been playing for less than its delay_seconds, a cycle sends no  *)
(* pause to a Playing target.  (The claim's second half, the pause once    *)
(* the time is up, is not what fails.)                                     *)
(***************************************************************************)
C4_NoPauseWithinGrace ==
    [][(/\ DetectionStep
        /\ TargetPlayingInLatestSnapshot
        /\ LET sample == latest_audio_apps_with_icons'
           IN \A i \in OtherPlaying(sample, target_app_info) :
                LET app_name == sample[i].process_name
                IN  /\ app_name \in DOMAIN Whitelist
                    /\ Whitelist[app_name].mode = "delay"
                    /\ streak_age'[app_name] < Whitelist[app_name].delay_seconds)
       => sent_commands' = <<>>]_vars

(***************************************************************************)
(* C5  Once a cycle has sampled a process as not playing, the process has  *)
(* no delay timer; and a timer is never older than the playing streak it   *)
(* belongs to, whatever cycles and user intents came before.               *)
(***************************************************************************)
C5_TimersFollowPlayingStreaks ==
    pc = "sleep" =>
        /\ DOMAIN delay_timers \subseteq PlayingAppNames(latest_audio_apps_with_icons)
        /\ \A n \in DOMAIN delay_timers \cap DOMAIN streak_age :
              delay_timers[n] <= streak_age[n]

(***************************************************************************)
(* C7  With general.ignore_manual_pause true in the stored configuration   *)
(* and was_manually_paused set: in a cycle where the target is in the      *)
(* snapshot, was_paused_by_app is true and no process interferes, the      *)
(* engine sends no command and puts set_paused_flag false exactly once.    *)
(***************************************************************************)
C7_ManualPauseKeepsTargetPaused ==
    [][(/\ DetectionStep
        /\ stored_config # NoFile
        /\ "general" \in DOMAIN stored_config
        /\ Get(stored_config.general, "ignore_manual_pause", FALSE)
        /\ TargetInLatestSnapshot
        /\ was_manually_paused'
        /\ was_paused_by_app
        /\ ~Interfering)
       => (/\ sent_commands' = <<>>
           /\ Cardinality(PutsOfType("set_paused_flag")) = 1
           /\ PutsPausedFlag(FALSE))]_vars

(***************************************************************************)
(* C8  When the worker applies a state_update whose target has another     *)
(* source id than the target it held (or no source id at all),             *)
(* was_manually_paused is false afterwards.                                *)
(***************************************************************************)
C8_RetargetClearsManualPause ==
    [][(/\ pc = "queue"
        /\ worker_queue # <<>>
        /\ Head(worker_queue).type = "state_update"
        /\ worker_queue' = Tail(worker_queue)
        /\ Head(worker_queue).data.target.source # target_app_info.source)
       => ~was_manually_paused']_vars

(***************************************************************************)
(* C9  was_manually_paused turns true only if the target's playback was    *)
(* last stopped by something other than the engine's own pause command,    *)
(* however the periodic cycle, the session-changed task and the UI's       *)
(* set_paused_flag / state_update round trip interleave.                   *)
(***************************************************************************)
C9_ManualPauseOnlyFromOutside ==
    [][(~was_manually_paused /\ was_manually_paused')
       => (/\ target_app_info # NoneTarget
           /\ stopped_by'[target_app_info.source] = "external")]_vars

(***************************************************************************)
(* C10  When the worker handles the control_app of a play/pause toggle, it *)
(* sends pause to that source id if the status the menu showed was Playing *)
(* and play if it was Paused; and if the session is the current target and *)
(* was Playing, was_manually_paused is true afterwards.                    *)
(***************************************************************************)
C10_ToggleFollowsShownStatus ==
    [][(/\ pc = "queue"
        /\ worker_queue # <<>>
        /\ Head(worker_queue).type = "control_app"
        /\ worker_queue' = Tail(worker_queue))
       => LET source == Head(worker_queue).data.source
              status == Head(toggle_status)
          IN  /\ sent_commands' =
                    <<[source |-> source,
                       command |-> IF status = "Playing" THEN "pause" ELSE "play"]>>
              /\ (/\ target_app_info # NoneTarget
                  /\ source = target_app_info.source
                  /\ status = "Playing") => was_manually_paused']_vars

(***************************************************************************)
(* C11  An enrichment run puts update_list on the UI queue if and only if  *)
(* the snapshot it has built differs from last_known_state, and then       *)
(* replaces last_known_state with it in the same step; nothing else puts   *)
(* update_list.  Handling force_refresh or ui_destroyed drops the cached   *)
(* snapshot, no step other than an enrichment run sets it again, and an    *)
(* enrichment run that finds it dropped puts update_list whatever the      *)
(* sessions are, none included.                                            *)
(***************************************************************************)
\* a step that is an enrichment run: the one of a periodic cycle or the one
\* a sessions_changed event scheduled
EnrichmentStep == DetectionStep \/ enrichment_tasks' = enrichment_tasks - 1

\* the snapshot the run of the step builds
BuiltSnapshot ==
    IF DetectionStep
    THEN Enrich(media_sessions, latest_audio_apps_with_icons)
    ELSE Enrich(GetMediaSessions(sessions), latest_audio_apps_with_icons)

\* a step in which the worker takes a message of the given type off its queue
Handles(type) ==
    /\ worker_queue # <<>> /\ Head(worker_queue).type = type
    /\ worker_queue' = Tail(worker_queue)

C11_UpdateListIffSnapshotDiffers ==
    [][/\ EnrichmentStep =>
            /\ PutsOfType("update_list") # {} <=> BuiltSnapshot # last_known_state
            /\ Cardinality(PutsOfType("update_list")) <= 1
            /\ \A k \in PutsOfType("update_list") : Puts[k].data = BuiltSnapshot
            /\ last_known_state' =
                 IF BuiltSnapshot # last_known_state THEN BuiltSnapshot
                 ELSE last_known_state
       /\ ~EnrichmentStep => PutsOfType("update_list") = {}
       /\ Handles("force_refresh") \/ Handles("ui_destroyed") =>
            last_known_state' = NoneState
       /\ ~EnrichmentStep /\ ~Handles("force_refresh") /\ ~Handles("ui_destroyed")
             /\ ~Handles("control_app") => UNCHANGED last_known_state
       /\ EnrichmentStep /\ last_known_state = NoneState =>
            /\ PutsOfType("update_list") # {}
            /\ last_known_state' = BuiltSnapshot]_vars

\* the list view shows sessions, and an update_list that carries just what it
\* shows is pending: the run that put it found the cached snapshot dropped
C11_Witness ==
    /\ app_list_window
    /\ entries # EmptyDict
    /\ ui_queue # <<>>
    /\ ui_queue[1] = [type |-> "update_list", data |-> entries]
    /\ last_known_state = entries
(***************************************************************************)
(* C12  The pruning done when the whitelist is saved is idempotent:        *)
(* applied to what it returned it returns the same whitelist.  What it     *)
(* returns has no entry of mode normal and has every entry of the saved    *)
(* whitelist whose mode is not normal, with its settings unchanged, and    *)
(* nothing else.                                                           *)
(***************************************************************************)
C12_PruningIdempotent ==
    result # NotReturned =>
        /\ GetValues(result.whitelist) = result.whitelist
        /\ \A a \in DOMAIN result.whitelist : result.whitelist[a].mode # "normal"
        /\ \A a \in DOMAIN call.whitelist :
              call.whitelist[a].mode # "normal" =>
                  /\ a \in DOMAIN result.whitelist
                  /\ result.whitelist[a] = call.whitelist[a]
        /\ DOMAIN result.whitelist \subseteq DOMAIN call.whitelist

\* a whitelist with an entry of mode normal and an entry of another mode
\* has been saved
C12_Witness ==
    /\ result # NotReturned
    /\ \E a, b \in DOMAIN call.whitelist :
          /\ call.whitelist[a].mode = "normal"
          /\ call.whitelist[b].mode = "delay"
          /\ a \notin DOMAIN result.whitelist
          /\ b \in DOMAIN result.whitelist
(***************************************************************************)
(* C13  The detector reads a process name that has no whitelist entry as   *)
(* mode normal, and an entry without delay_seconds as the same entry with  *)
(* delay_seconds = 2: its scan gives what it gives on the whitelist with   *)
(* those entries written out.  The validation gives an entry without       *)
(* delay_seconds the value 2 and keeps a given one, and adds no entry.     *)
(* The lookup changes nothing but its own result.                          *)
(***************************************************************************)
\* the whitelist with the entries of the sample's processes written out
WrittenOut(whitelist, audio_apps) ==
    [a \in DOMAIN whitelist \cup {audio_apps[i].process_name : i \in DOMAIN audio_apps} |->
        IF a \in DOMAIN whitelist
        THEN [mode |-> whitelist[a].mode,
              delay_seconds |-> IF "delay_seconds" \in DOMAIN whitelist[a]
                                THEN whitelist[a].delay_seconds ELSE 2]
        ELSE [mode |-> "normal", delay_seconds |-> 2]]

C13_LookupDefaults ==
    [][/\ result' # result => UNCHANGED <<call, program_vars, life_vars>>
       /\ result' # result /\ result'.by = "detector" =>
            /\ \A i \in DOMAIN call.audio_apps :
                  call.audio_apps[i].process_name \notin DOMAIN call.whitelist =>
                      ModeOf(call.whitelist, call.audio_apps[i].process_name) = "normal"
            /\ result'.scan =
                  ScanForInterference(call.audio_apps, 1, call.target_pid,
                      WrittenOut(call.whitelist, call.audio_apps),
                      CleanDelayTimers(call.timers, call.audio_apps))
       /\ result' # result /\ result'.by = "validation" =>
            /\ DOMAIN result'.whitelist = DOMAIN call.whitelist
            /\ \A a \in DOMAIN call.whitelist :
                  /\ result'.whitelist[a].mode = call.whitelist[a].mode
                  /\ result'.whitelist[a].delay_seconds =
                        IF "delay_seconds" \in DOMAIN call.whitelist[a]
                        THEN call.whitelist[a].delay_seconds ELSE 2]_vars

\* the detector has met a playing process whose delay entry carries no
\* delay_seconds and has held it back for a timer younger than 2
C13_Witness ==
    /\ result # NotReturned /\ result.by = "detector"
    /\ \E i \in DOMAIN call.audio_apps :
          /\ call.audio_apps[i].is_playing
          /\ call.audio_apps[i].pid # call.target_pid
          /\ call.audio_apps[i].process_name = "audiodg.exe"
    /\ call.whitelist = [a \in {"audiodg.exe"} |-> [mode |-> DetectorDelayMode]]
    /\ "audiodg.exe" \in DOMAIN call.timers /\ call.timers["audiodg.exe"] = 1
    /\ ~result.scan.is_interfering
(***************************************************************************)
(* C14  Once stop() has been called, at whatever point of the worker's     *)
(* life, the worker eventually has the session-changed handler             *)
(* unregistered, the periodic task ended and run() returned; and the       *)
(* periodic task starts no cycle while the stop flag is set.               *)
(***************************************************************************)
C14_StopEndsWorker ==
    /\ stop_event ~> (/\ run_pc = "returned"
                      /\ ~handler_registered
                      /\ periodic_pc \in {"none", "done"})
    /\ [][periodic_pc # "queue" /\ periodic_pc' = "queue" => ~stop_event]_vars

(***************************************************************************)
(* C15  An exception raised at any step of a periodic cycle does not end   *)
(* the periodic task: the task goes to the 5 s sleep without taking the    *)
(* steps that are left of the cycle, and from that sleep to the top of the *)
(* loop; the task ends only when the stop flag is set or it is cancelled.  *)
(***************************************************************************)
C15_ExceptionBacksOff ==
    [][/\ raised' # "None" /\ failures' # failures => periodic_pc' = "sleep5"
       /\ periodic_pc = "sleep5" /\ periodic_pc' # "sleep5" =>
            periodic_pc' \in {"top", "done"}
       /\ periodic_pc # "done" /\ periodic_pc' = "done" =>
            stop_event \/ async_stop_event = "set"]_vars

(***************************************************************************)
(* C16  When the initialization of the media manager fails, no periodic    *)
(* cycle runs, no session-changed handler is registered, no play or pause  *)
(* is sent, run() returns, and the status bar of the window comes to show  *)
(* something other than that the program is monitoring.                    *)
(***************************************************************************)
C16_InitFailureShown ==
    /\ [](initialization = "failed" =>
            /\ cycles = 0 /\ periodic_pc = "none"
            /\ ~handler_registered
            /\ ~commanded)
    /\ initialization = "failed" ~> (run_pc = "returned" /\ status_label # "monitoring")
(***************************************************************************)
(* C17  get_media_sessions never raises.  It returns the empty list when   *)
(* the media manager is not initialised; otherwise it returns, in order,   *)
(* one record for each session the enumeration handed out before it ended  *)
(* or raised and whose query answered, so that a session whose query       *)
(* raises is left out and the others are still returned.                   *)
(***************************************************************************)
\* the sessions of the call that were handed out and whose query answered
Answered ==
    SelectSeq(SubSeq(call.sessions, 1, call.yielded), LAMBDA x : x.query = "ok")

C17_MediaSessionsFailSoftly ==
    call.function = "get_media_sessions" /\ result # NotReturned =>
        /\ ~result.raised
        /\ ~call.manager => result.value = <<>>
        /\ call.manager =>
            /\ Len(result.value) = Len(Answered)
            /\ \A i \in DOMAIN Answered :
                  /\ result.value[i].source = Answered[i].source
                  /\ result.value[i].status = StatusStr(Answered[i].playback_status)

\* the query of the first session raised, the second answered and is
\* returned, and the enumeration raised after it
C17_Witness ==
    /\ call.function = "get_media_sessions" /\ result # NotReturned
    /\ call.manager /\ call.enumeration = "raises"
    /\ Len(call.sessions) = 2 /\ call.yielded = 2
    /\ call.sessions[1].query = "raises"
    /\ call.sessions[2].query = "ok"
    /\ result.value = <<[source |-> call.sessions[2].source,
                         status |-> StatusStr(call.sessions[2].playback_status)]>>

(***************************************************************************)
(* C18  control_media never raises, whether or not the command it sends    *)
(* fails.  It sends nothing when the manager is not initialised or when no *)
(* session has the given source id; when a session has it, whatever is     *)
(* sent is the command of the call, play or pause, and goes to the first   *)
(* such session and to no other.                                           *)
(***************************************************************************)
C18_ControlMediaOnlyTheMatch ==
    call.function = "control_media" /\ result # NotReturned =>
        LET matching == {i \in DOMAIN call.sessions : call.sessions[i].source = call.app_id}
        IN  /\ ~result.raised
            /\ ~call.manager \/ matching = {} => result.sent = <<>>
            /\ Len(result.sent) <= 1
            /\ \A k \in DOMAIN result.sent :
                  /\ result.sent[k].session \in matching
                  /\ \A j \in matching : result.sent[k].session <= j
                  /\ result.sent[k].command = call.command
                  /\ call.command \in {"play", "pause"}
            /\ call.manager /\ call.enumeration = "ok" /\ matching # {}
                  /\ call.command \in {"play", "pause"} => Len(result.sent) = 1

\* the second of two sessions has the source id, pause is sent to it alone,
\* the command fails and the call returns
C18_Witness ==
    /\ call.function = "control_media" /\ result # NotReturned
    /\ Len(call.sessions) = 2
    /\ call.sessions[1].source # call.app_id
    /\ call.sessions[2].source = call.app_id
    /\ call.sessions[2].command = "raises"
    /\ result.sent = <<[session |-> 2, command |-> "pause"]>>
    /\ ~result.raised

(***************************************************************************)
(* C19  get_audio_playing_apps never raises.  It returns the empty list    *)
(* when the enumeration of the sessions fails; otherwise it returns, in    *)
(* order, one record for each session whose process lives and whose        *)
(* queries answer, leaving out the sessions without a process, those whose *)
(* process is gone and those whose query fails.  In every record           *)
(* is_playing is true exactly when peak_value is above 0.01.               *)
(***************************************************************************)
\* the sessions of the call whose process lives and answers
Alive == SelectSeq(call.sessions, LAMBDA x : x.process = "alive")

C20_TargetClosedClearsSelection ==
    [][(/\ ui_queue # <<>> /\ ui_queue' = <<>>
        /\ Last(ui_queue).type = "target_closed")
       => (/\ ui_target_app_info' = NoneTarget
           /\ ~ui_was_paused_by_app'
           /\ target_app_source' = "None"
           /\ worker_queue' # <<>>
           /\ Last(worker_queue') = StateUpdate(NoneTarget, FALSE))]_vars
(***************************************************************************)
(* C21  The whitelist that detection uses follows the saves of the         *)
(* settings window by way of config_updated: once the user has been        *)
(* through the settings window to save a whitelist and no config_updated   *)
(* waits in the worker's queue, a detection cycle with a target reads the  *)
(* whitelist that was saved.                                               *)
(***************************************************************************)
ConfigUpdatedPending ==
    \E i \in DOMAIN worker_queue : worker_queue[i].type = "config_updated"

DictsOf(apps) == {<<apps[i].made, apps[i].pid>> : i \in DOMAIN apps}

\* the dicts the worker's caches hold
WorkerDicts ==
    DictsOf(latest_audio_apps_with_icons)
    \cup {<<all_known_apps_cache[k].made, all_known_apps_cache[k].pid>> :
             k \in DOMAIN all_known_apps_cache}

C22_WindowHoldsCopies ==
    /\ current_audio_apps.list # latest_list
    /\ DictsOf(current_audio_apps.apps) \cap WorkerDicts = {}

(***************************************************************************)
(* C23  all_known_apps_cache only grows and follows the samples: a step    *)
(* never removes a key; after a cycle has sampled, every process name of   *)
(* the sample is a key whose entry is a dict of that sample, and the       *)
(* entry of every name the sample does not contain is the one it was.      *)
(***************************************************************************)
\* the process names of a list of applications
NamesOf(apps) == {apps[i].process_name : i \in DOMAIN apps}

C23_CacheFollowsSamples ==
    [][/\ DOMAIN all_known_apps_cache \subseteq DOMAIN all_known_apps_cache'
       /\ cycles' # cycles =>
            /\ \A i \in DOMAIN latest_audio_apps_with_icons' :
                 LET name == latest_audio_apps_with_icons'[i].process_name
                 IN  /\ name \in DOMAIN all_known_apps_cache'
                     /\ \E j \in DOMAIN latest_audio_apps_with_icons' :
                          all_known_apps_cache'[name] = latest_audio_apps_with_icons'[j]
            /\ \A name \in DOMAIN all_known_apps_cache \ NamesOf(latest_audio_apps_with_icons') :
                 all_known_apps_cache'[name] = all_known_apps_cache[name]]_vars

\* the second sample has been taken: Spotify.exe was in the first and not in
\* the second, audiodg.exe in both; the cache holds Spotify.exe's dict of
\* the first cycle and audiodg.exe's of the second
C23_Witness ==
    /\ cycles = 2
    /\ NamesOf(latest_audio_apps_with_icons) = {"audiodg.exe"}
    /\ DOMAIN all_known_apps_cache = {"Spotify.exe", "audiodg.exe"}
    /\ all_known_apps_cache["Spotify.exe"].made = 1
    /\ all_known_apps_cache["audiodg.exe"].made = 2

(***************************************************************************)
(* C24  At the end of a cycle the engine's own was_paused_by_app agrees    *)
(* with what the cycle did: true if it sent pause, false if it sent play   *)
(* or acknowledged a manual pause by putting set_paused_flag false.        *)
(***************************************************************************)
C24_FlagSetWithinTheCycle ==
    [][DetectionStep =>
          /\ Sends("pause") => was_paused_by_app'
          /\ (Sends("play") \/ PutsPausedFlag(FALSE)) => ~was_paused_by_app']_vars

(***************************************************************************)
(* C25  Whenever an enrichment run reports the target Paused and the run   *)
(* before it reported the target Playing, while was_paused_by_app is       *)
(* false, was_manually_paused is true after the run; this also when a      *)
(* force_refresh, ui_destroyed or control_app was handled between the two  *)
(* runs.  Stated for the pauses that came from outside the program.        *)
(***************************************************************************)
\* the status a snapshot reports for the target
ReportedStatus(snapshot) ==
    IF target_app_info.source \in DOMAIN snapshot
    THEN snapshot[target_app_info.source].status
    ELSE "None"

C25_ExternalPauseAlwaysNoticed ==
    [][(/\ EnrichmentStep
        /\ target_app_info # NoneTarget
        /\ ReportedStatus(reported_state) = "Playing"
        /\ ReportedStatus(reported_state') = "Paused"
        /\ stopped_by[target_app_info.source] = "external"
        /\ ~was_paused_by_app)
       => was_manually_paused']_vars

(***************************************************************************)
(* C26  In a detection cycle with a target, a process other than the       *)
(* target that plays under the delay policy has a delay timer at the end   *)
(* of the cycle, also when a process earlier in the sample already         *)
(* interferes.  Stated for that case, with the delay policy spelled as the *)
(* detector reads it and the earlier process, which is not the target's    *)
(* own, under the normal policy.                                           *)
(***************************************************************************)
C26_DelayTimerDespiteEarlierInterference ==
    [][(DetectionStep /\ target_app_info # NoneTarget) =>
          LET sample == latest_audio_apps_with_icons'
          IN  \A i \in OtherPlaying(sample, target_app_info) :
                 (/\ sample[i].process_name \in DOMAIN Whitelist
                  /\ Whitelist[sample[i].process_name].mode = DetectorDelayMode
                  /\ \E j \in OtherPlaying(sample, target_app_info) :
                        /\ j < i
                        /\ NormalizedProcessName(sample[j].process_name)
                              # DisplayNameLower(target_app_info.source)
                        /\ sample[j].process_name \notin DOMAIN Whitelist)
                 => sample[i].process_name \in DOMAIN delay_timers']_vars

(***************************************************************************)
(* C27  A cycle goes through its steps in one order: the worker's queue is *)
(* handled at the top of the cycle only, then come the enrichment run, the *)
(* sample and the detection step, then the sleep.  Of the messages a       *)
(* completed cycle puts, update_list (if any) comes before                 *)
(* update_audio_apps, which comes before any set_paused_flag or            *)
(* target_closed; the cycle puts exactly one update_audio_apps and nothing *)
(* else puts one.                                                          *)
(***************************************************************************)
C27_CycleOrder ==
    [][/\ (worker_queue # <<>> /\ worker_queue' = Tail(worker_queue)) => pc = "queue"
       /\ pc' # pc => <<pc, pc'>> \in {<<"queue", "enrich_wait">>,
                                       <<"enrich_wait", "sleep">>,
                                       <<"sleep", "queue">>}
       /\ PutsOfType("update_audio_apps") # {} => DetectionStep
       /\ DetectionStep =>
            /\ Cardinality(PutsOfType("update_audio_apps")) = 1
            /\ \A k \in PutsOfType("update_audio_apps") :
                 /\ \A l \in PutsOfType("update_list") : l < k
                 /\ \A l \in PutsOfType("set_paused_flag") \cup PutsOfType("target_closed") :
                      k < l]_vars

\* a cycle has just put update_list, update_audio_apps and set_paused_flag,
\* in this order, and has sent pause
C27_Witness ==
    /\ pc = "sleep"
    /\ sent_commands # <<>>
    /\ Len(ui_queue) = 3
    /\ ui_queue[1].type = "update_list"
    /\ ui_queue[1].data = last_known_state
    /\ ui_queue[2].type = "update_audio_apps"
    /\ ui_queue[3] = [type |-> "set_paused_flag", data |-> TRUE]

(***************************************************************************)
(* C28  The option general.ignore_manual_pause survives the loading of the *)
(* configuration and the settings window: if the stored configuration sets *)
(* it true, the engine reads it as true; and once the user has been        *)
(* through the settings window, the stored configuration holds the value   *)
(* chosen there.                                                           *)
(***************************************************************************)
\* the stored configuration's value of the option, false if it has none
StoredIgnoreManualPause ==
    /\ stored_config # NoFile
    /\ ConfigGet(stored_config, "general", "ignore_manual_pause", FALSE)

C28_IgnoreManualPauseRoundTrip ==
    /\ StoredIgnoreManualPause
          => ConfigGet(config, "general", "ignore_manual_pause", FALSE)
    /\ (call.function = "show_settings_window" /\ result # NotReturned)
          => StoredIgnoreManualPause = call.ignore_manual_pause

(***************************************************************************)
(* C29  When get_icon_for_pid returns, on success and on every failure, it *)
(* holds none of the handles it acquired; and the icon cache never has     *)
(* more than 128 entries.                                                  *)
(***************************************************************************)
C29_IconHandlesReleased ==
    (call.function = "get_icon_for_pid" /\ result # NotReturned) =>
        /\ result.held = {}
        /\ result.cache.size <= IconCacheMaxSize

(***************************************************************************)
(* C30  The target's own sound is never interference: in a detection cycle *)
(* with a target in which every playing process of the sample is the       *)
(* target's own process, the scan finds no interference and no pause is    *)
(* sent, whether or not the target's pid was resolved when it was chosen.  *)
(***************************************************************************)
\* the records of the cycle's sample that play and are not of the process
\* the target's session belongs to
PlayingNotTargetsOwn ==
    {i \in DOMAIN latest_audio_apps_with_icons' :
        /\ latest_audio_apps_with_icons'[i].is_playing
        /\ NormalizedProcessName(latest_audio_apps_with_icons'[i].process_name)
             # DisplayNameLower(target_app_info.source)}

C30_OwnSoundIsNoInterference ==
    [][(/\ DetectionStep
        /\ target_app_info # NoneTarget
        /\ PlayingNotTargetsOwn = {})
       => (~Interfering /\ ~Sends("pause"))]_vars

(***************************************************************************)
(* C31  target_closed is put only when the target's source id is absent    *)
(* from an enumeration of the sessions that succeeded: never after an      *)
(* enumeration in which an exception was raised and swallowed.             *)
(***************************************************************************)
C31_TargetClosedOnlyOnRealAbsence ==
    [][(DetectionStep /\ PutsOfType("target_closed") # {})
       => (/\ raised = "None"
           /\ target_app_info.source \notin DOMAIN media_sessions)]_vars

(***************************************************************************)
(* C32  For one disappearance of the target's session the engine puts      *)
(* target_closed once: when the closing of the target's session is the     *)
(* only thing that has happened outside the program, a detection cycle     *)
(* puts no target_closed while the one of an earlier cycle waits for the   *)
(* UI, or while the state_update with which the UI answered it waits for   *)
(* the worker.                                                             *)
(***************************************************************************)
TargetClosedAlreadyPut ==
    \/ \E i \in DOMAIN ui_queue : ui_queue[i].type = "target_closed"
    \/ /\ ui_target_app_info = NoneTarget
       /\ worker_queue # <<>>
       /\ Last(worker_queue) = StateUpdate(NoneTarget, FALSE)

C32_TargetClosedOncePerDisappearance ==
    [][(/\ DetectionStep
        /\ target_app_info # NoneTarget
        /\ sessions[target_app_info.source] = "Absent"
        /\ events = 1
        /\ TargetClosedAlreadyPut)
       => PutsOfType("target_closed") = {}]_vars
(***************************************************************************)
(* C33  The snapshot is never replaced by one built from an older          *)
(* enumeration.  When a session has opened or closed after the cycle's     *)
(* enumeration, this being the only thing that has happened outside the    *)
(* program, and the session-changed task it started has run, the snapshot  *)
(* is the newer of the two: the end of the cycle's enrichment leaves it    *)
(* with the sessions that exist.                                           *)
(***************************************************************************)
C33_OlderEnumerationNeverOverwrites ==
    [][(/\ DetectionStep
        /\ events = 1
        /\ enrichment_tasks = 0
        /\ DOMAIN media_sessions # DOMAIN GetMediaSessions(sessions)
        /\ DOMAIN last_known_state = DOMAIN GetMediaSessions(sessions))
       => DOMAIN last_known_state' = DOMAIN GetMediaSessions(sessions)]_vars

(***************************************************************************)
(* C34  The worker's was_paused_by_app is true only for a target the       *)
(* engine has paused: a set_paused_flag true put for a previous target     *)
(* never makes it true for the target chosen afterwards.  With Spotify.exe *)
(* chosen at first and the user's choice of another entry being the only   *)
(* thing that has happened outside the program, the flag is true for the   *)
(* new target only if the engine's pause stopped that target.              *)
(***************************************************************************)
C34_FlagOnlyForThePausedTarget ==
    (/\ was_paused_by_app
     /\ target_app_info # NoneTarget
     /\ target_app_info.source # "Spotify.exe"
     /\ events = 1)
    => stopped_by[target_app_info.source] = "engine"

(***************************************************************************)
(* C35  With ignore_manual_pause off, the target staying in the snapshot   *)
(* and no further intent of the user: if from some point on no process     *)
(* other than the target's plays, then every pause the engine has sent to  *)
(* the target is followed by a play the engine sends to it, and            *)
(* was_paused_by_app eventually is false and stays false.                  *)
(***************************************************************************)
Quiet == OtherPlaying(latest_audio_apps_with_icons, target_app_info) = {}

EngineSent(media_command) ==
    sent_commands = <<[source |-> target_app_info.source, command |-> media_command]>>

C35_ResumeWhenInterferenceEnds ==
    <>[]Quiet => /\ EngineSent("pause") ~> EngineSent("play")
                 /\ <>[](~was_paused_by_app)

\* the engine has paused Spotify.exe and resumed it, the flag is false again
\* on both sides and nothing waits in the queues
C35_Witness ==
    /\ target_app_info.source = "Spotify.exe"
    /\ ~ConfigGet(config, "general", "ignore_manual_pause", FALSE)
    /\ stopped_by["Spotify.exe"] = "engine"
    /\ sessions["Spotify.exe"] = "Playing"
    /\ Quiet
    /\ ~was_paused_by_app /\ ~ui_was_paused_by_app
    /\ worker_queue = <<>> /\ ui_queue = <<>>

(***************************************************************************)
(* C36  The detection step sends pause only when the target's status in    *)
(* the latest snapshot is Playing and was_paused_by_app is false; it sends *)
(* play only when was_paused_by_app is true and no process interferes;     *)
(* with no target it sends no command, puts no message of its own and      *)
(* leaves the delay timers as they are.                                    *)
(***************************************************************************)
C36_CommandsOnlyWhenDue ==
    [][DetectionStep
       => (/\ (target_app_info # NoneTarget /\ Sends("pause"))
                 => (TargetPlayingInLatestSnapshot /\ ~was_paused_by_app)
           /\ (target_app_info # NoneTarget /\ Sends("play"))
                 => (was_paused_by_app /\ ~Interfering)
           /\ target_app_info = NoneTarget
                 => (/\ sent_commands' = <<>>
                     /\ PutsOfType("set_paused_flag") = {}
                     /\ PutsOfType("target_closed") = {}
                     /\ delay_timers' = delay_timers))]_vars

\* a cycle has just sent play to the target it held paused, no process
\* interfering in its sample
C36_Witness ==
    /\ pc = "sleep"
    /\ target_app_info # NoneTarget
    /\ EngineSent("play")
    /\ was_paused_by_app
    /\ Quiet

SidesAgree ==
    (worker_queue = <<>> /\ ui_queue = <<>>)
    => (/\ target_app_info = ui_target_app_info
        /\ was_paused_by_app = ui_was_paused_by_app)

AppliesHeadStateUpdate ==
    (target_app_info' # target_app_info \/ was_paused_by_app' # was_paused_by_app)
    => (/\ Handles("state_update")
        /\ target_app_info' = Head(worker_queue).data.target
        /\ was_paused_by_app' = Head(worker_queue).data.paused)

C38_WorkerFollowsTheUi == []SidesAgree /\ [][AppliesHeadStateUpdate]_vars

\* the engine's pause has made the round: the flag is true on both sides
\* and nothing waits in either queue
C38_Witness ==
    /\ worker_queue = <<>> /\ ui_queue = <<>>
    /\ target_app_info # NoneTarget
    /\ target_app_info = ui_target_app_info
    /\ was_paused_by_app /\ ui_was_paused_by_app

(***************************************************************************)
(* C39  Once the user has changed the target while the engine holds the    *)
(* old one paused, the engine sends no play to the old target.  With       *)
(* Spotify.exe chosen at first and the user's choice of Chrome the only    *)
(* thing that has happened outside the program: after that choice no       *)
(* detection step sends play to Spotify.exe.                               *)
(***************************************************************************)
C39_NoResumeOfTheOldTarget ==
    [][(/\ DetectionStep
        /\ events = 1
        /\ ui_target_app_info.source = "Chrome"
        /\ target_app_info.source = "Spotify.exe"
        /\ was_paused_by_app)
       => ~Sends("play")]_vars

====
